---- MODULE Spec2Model ----
(***************************************************************************)
(* Verification model of the mail-blasting control plane (shiva_app.py)   *)
(* and of its accounting bridge (pmta_accounting_bridge.py).              *)
(*                                                                         *)
(* The module holds several state machines over one tuple of variables:    *)
(*   SpecOutcome / SpecReconcile  the accounting reconciler and the        *)
(*                                Outcome Store (job_outcomes table),      *)
(*   SpecBridge                   the cursor-based pull of the bridge,     *)
(*   SpecStart                    the /start handler and its guard,        *)
(*   SpecSched                    the per-job scheduler and sender pool,   *)
(*   SpecCtl / SpecCtlFair        the job controller and the restart,      *)
(*   SpecMid                      the Message-ID and its parsers,          *)
(*   SpecTail                     the bridge poller of shiva_app.py,       *)
(*   SpecCsv                      the parser of accounting lines,          *)
(*   SpecCfg                      the configuration and its reload,        *)
(*   SpecLock                     the global locks JOBS_LOCK and DB_LOCK,  *)
(*   SpecDel                      a delete against the snapshot writers,   *)
(*   SpecPersist                  the throttle of maybe_persist,           *)
(*   SpecRing                     the in-memory histories of a job.        *)
(* Each specification leaves the variables of the others unchanged.       *)
(***************************************************************************)
EXTENDS Integers, Sequences, FiniteSets, TLC

(***************************************************************************)
(* Bounds of the model                                                     *)
(***************************************************************************)
MaxEvents == 2
\* job.persist_counter of a running job when the model starts to watch it
InitPersistCounter == 13

(***************************************************************************)
(* Universe of the reconciler                                              *)
(***************************************************************************)
Jobs == {"j1", "j2"}
Rcpts == {"r1", "r2"}
Campaigns == {"c1"}
NoJob == ""
\* the id of a job that is not in JOBS: deleted, or of another instance
GoneJob == "j0"
NoCampaign == ""
NoRow == "none"
JobCampaign == [j \in Jobs |-> "c1"]

Finals == {"delivered", "bounced", "complained"}
Kinds == Finals \cup {"deferred"}
EventKinds == {"delivered", "bounced", "deferred", "unknown"}
ErrClasses == {"accepted", "temporary_error", "blocked"}
CodeLeads == {""}
ActiveStatuses == {"queued", "running", "backoff", "paused"}
RunningStatuses == {"running", "backoff", "paused"}
TerminalStatuses == {"done", "error", "stopped"}
Threads == {"poller", "pull_once"}
Free == "free"
NoSnap == [present |-> FALSE]

\* maybe_persist: "save ... every ~15 events"
PersistEvery == 15

VARIABLES
    \* ---- in-memory job table (JOBS) and SendJob fields ----
    JOBS,                    \* keys of the JOBS dict
    job_status,              \* job.status
    outcome_counts,          \* job.delivered / bounced / deferred / complained
    accounting_error_counts, \* job.accounting_error_counts
    persist_counter,         \* job.persist_counter
    \* ---- SQLite ----
    job_outcomes,            \* rows of table job_outcomes
    jobs_table,              \* rows of table jobs (snapshots)
    job_recipients,          \* rows of table job_recipients
    \* ---- reconciler threads ----
    JOBS_LOCK,
    ev_pc,
    ev_cur,
    n_events,
    \* ---- arrival history (observation only) ----
    last_event,              \* the event processed last
    last_final,              \* kind of the newest final event of the pair
    bridge_view,             \* what _calculate_job_outcomes holds for the pair
    \* ---- accounting bridge: log files, one /api/v1/pull and its client ----
    b_files,                 \* the accounting files, oldest first
    b_pc,                    \* "idle", or "listed" after _recent_matching_files
    b_listing,               \* what _recent_matching_files returned
    b_cursor,                \* next_cursor the client holds
    b_emitted,               \* lines handed to the client so far, in order
    b_has_more,              \* has_more of the last response
    b_last_listing,          \* what the last answered pull had listed
    \* ---- POST /start and its guard ----
    START_GUARD,             \* campaign -> age of its timestamp, or NoGuard
    s_pc,                    \* where each start request is
    s_req,                   \* the form of each request
    s_resp,                  \* HTTP status each request got (0: none yet)
    s_jobs,                  \* status of the job each request put in JOBS
    s_overlap,               \* a request met the guard while another was in flight
    s_takeover,              \* a guard was taken from a request still in flight
    s_hc,                    \* what pmta_health_check returned to the request
    \* ---- smtp_send_job: one job, its scheduler loop and its counters ----
    now,                     \* time.time(), in seconds
    sched_pc,                \* where smtp_send_job is
    sched_status,            \* job.status
    total,                   \* job.total
    sent,                    \* job.sent
    failed,                  \* job.failed
    skipped,                 \* job.skipped
    chunk_size,              \* cs
    provider_buckets,        \* receiver domain -> pending recipients
    provider_order,
    provider_cursor,
    provider_sender_cursor,
    relation_backoff_until,
    relation_backoff_attempts,
    provider_next_retry_ts,
    cur,                     \* locals of the chunk in hand
    n_blocks,                \* preflight blocks so far
    rr_had,                  \* history: the domains that had a chunk dispatched
    rr_seen,                 \* history: per domain, the domains that since its
                             \* last chunk had one or could have none
    \* ---- the job controller: one job, its thread, one worker, the tables ----
    ctl_in_JOBS,             \* job_id in JOBS
    ctl_status,              \* job.status
    paused,                  \* job.paused
    stop_requested,          \* job.stop_requested
    deleted,                 \* job.deleted
    stop_reason,             \* job.stop_reason
    ctl_row,                 \* the row of the job in table jobs
    ctl_outcome_rows,        \* recipients with a row of the job in job_outcomes
    t_pc,                    \* where the thread of smtp_send_job is
    t_left,                  \* chunks not yet done
    w_pc,                    \* where worker_send is
    w_left,                  \* recipients of the chunk not yet handled
    ctl_handled,             \* job.sent + job.failed
    del_pc,                  \* where api_job_delete is
    restart_tick,            \* flips at every process start
    ctl_raised,              \* the function the last exception was raised in
    \* ---- one message on its way: worker_send, the bridge, the reconciler ----
    mid_pc,                  \* "idle", "sent", "bridged", "parsed"
    mid_msg,                 \* job_id, campaign_id, chunk_idx, worker_idx of the send
    mid_text,                \* msg["Message-ID"], as a sequence of tokens
    mid_bridge,              \* result of the bridge's _parse_ids_from_message_id
    mid_extracted,           \* result of the reconciler's _extract_job_id_from_text
    \* ---- the bridge poller of shiva_app.py ----
    tl_pc,                   \* per caller: "sleep", or "waiting" in a poll
    tl_req_cursor,           \* the cursor the request in flight (or the last one) carries
    tl_last_ok,              \* the pull before this one succeeded
    tl_last_next,            \* next_cursor of the last response that was read
    tl_received,             \* every next_cursor a response has carried
    tl_debug,                \* _BRIDGE_DEBUG_STATE: attempts, success_count, ...
    \* ---- the parser of accounting lines ----
    csv_lines,               \* the lines the accounting source has emitted
    csv_pos,                 \* how many of them have been read
    PMTA_ACC_HEADERS,        \* number of columns of the remembered header, 0 for none
    csv_events,              \* the events handed on, in order
    \* ---- the configuration ----
    cfg_env,                 \* the environment of the process, per key
    app_config,              \* the app_config table: the UI override of each key
    cfg_runtime,             \* the runtime global of each key
    BRIDGE_POLLER_STARTED,   \* _BRIDGE_POLLER_STARTED
    cfg_boots,               \* how many times the process was restarted
    cfg_last,                \* key, value and status of the last /api/config/set
    \* ---- the two global locks ----
    lk_held,                 \* the thread that holds each lock, or "free"
    lk_pc,                   \* how many lock operations of its function each thread has done
    lk_rounds,               \* how many times each thread has run its function
    \* ---- a delete against the writers of the snapshot row ----
    dl_deleted,              \* job.deleted
    dl_in_JOBS,              \* the job is in JOBS
    dl_row,                  \* the job has a row in table jobs
    dl_pc,                   \* where api_job_delete is
    dl_lock,                 \* the holder of JOBS_LOCK, or "free"
    dl_ps,                   \* where each caller of maybe_persist is
    dl_n,                    \* how many times each caller has persisted
    \* ---- the throttle of maybe_persist ----
    ps_counter,              \* job.persist_counter, modulo 15
    ps_now,                  \* time.time(), in half seconds
    persist_ts,              \* job.persist_ts
    ps_written_at,           \* when the last snapshot was written
    ps_since,                \* state events since the last snapshot was written
    ps_force,                \* whether the last state event was forced
    ps_result,               \* what the last maybe_persist did
    \* ---- the histories of a job ----
    recent_results_len,      \* len(job.recent_results)
    chunk_states_len         \* len(job.chunk_states)

outcomeVars == <<JOBS, job_status, outcome_counts, accounting_error_counts,
                 persist_counter, job_outcomes, jobs_table, job_recipients,
                 JOBS_LOCK, ev_pc, ev_cur, n_events, last_event,
                 last_final, bridge_view>>

bridgeVars == <<b_files, b_pc, b_listing, b_cursor, b_emitted, b_has_more,
                b_last_listing>>

startVars == <<START_GUARD, s_pc, s_req, s_resp, s_jobs, s_overlap, s_takeover,
               s_hc>>

schedVars == <<now, sched_pc, sched_status, total, sent, failed, skipped,
               chunk_size, provider_buckets, provider_order, provider_cursor,
               provider_sender_cursor, relation_backoff_until,
               relation_backoff_attempts, provider_next_retry_ts, cur, n_blocks,
               rr_had, rr_seen>>

ctlVars == <<ctl_in_JOBS, ctl_status, paused, stop_requested, deleted,
             stop_reason, ctl_row, ctl_outcome_rows, t_pc, t_left, w_pc, w_left,
             ctl_handled, del_pc, restart_tick, ctl_raised>>

midVars == <<mid_pc, mid_msg, mid_text, mid_bridge, mid_extracted>>

tailVars == <<tl_pc, tl_req_cursor, tl_last_ok, tl_last_next, tl_received,
              tl_debug>>

csvVars == <<csv_lines, csv_pos, PMTA_ACC_HEADERS, csv_events>>

cfgVars == <<cfg_env, app_config, cfg_runtime, BRIDGE_POLLER_STARTED, cfg_boots, cfg_last>>

lockVars == <<lk_held, lk_pc, lk_rounds>>

delVars == <<dl_deleted, dl_in_JOBS, dl_row, dl_pc, dl_lock, dl_ps, dl_n>>

persistVars == <<ps_counter, ps_now, persist_ts, ps_written_at, ps_since, ps_force, ps_result>>

ringVars == <<recent_results_len, chunk_states_len>>

vars == <<outcomeVars, bridgeVars, startVars, schedVars, ctlVars, midVars,
          tailVars,
          csvVars,
          cfgVars,
          lockVars,
          delVars,
          persistVars,
          ringVars>>

\* what the reconciler leaves alone
nonOutcomeVars == <<bridgeVars, startVars, schedVars, ctlVars, midVars, tailVars,
    csvVars,
    cfgVars,
    lockVars,
    delVars,
    persistVars,
    ringVars>>

\* what the bridge leaves alone
nonBridgeVars == <<outcomeVars, startVars, schedVars, ctlVars, midVars, tailVars,
    csvVars,
    cfgVars,
    lockVars,
    delVars,
    persistVars,
    ringVars>>

\* what /start leaves alone
nonStartVars == <<outcomeVars, bridgeVars, schedVars, ctlVars, midVars, tailVars,
    csvVars,
    cfgVars,
    lockVars,
    delVars,
    persistVars,
    ringVars>>

\* what the scheduler leaves alone
nonSchedVars == <<outcomeVars, bridgeVars, startVars, ctlVars, midVars, tailVars,
    csvVars,
    cfgVars,
    lockVars,
    delVars,
    persistVars,
    ringVars>>

\* what the job controller leaves alone
nonCtlVars == <<outcomeVars, bridgeVars, startVars, schedVars, midVars, tailVars,
    csvVars,
    cfgVars,
    lockVars,
    delVars,
    persistVars,
    ringVars>>

\* what the Message-ID round trip leaves alone
nonMidVars == <<outcomeVars, bridgeVars, startVars, schedVars, ctlVars,
               tailVars,
    csvVars,
    cfgVars,
    lockVars,
    delVars,
    persistVars,
    ringVars>>

\* what the bridge poller leaves alone
nonTailVars == <<outcomeVars, bridgeVars, startVars, schedVars, ctlVars,
                midVars,
    csvVars,
    cfgVars,
    lockVars,
    delVars,
    persistVars,
    ringVars>>

\* what the parser of accounting lines leaves alone
nonCsvVars == <<outcomeVars, bridgeVars, startVars, schedVars, ctlVars,
    midVars, tailVars,
    cfgVars,
    lockVars,
    delVars,
    persistVars,
    ringVars>>

\* what the configuration leaves alone
nonCfgVars == <<outcomeVars, bridgeVars, startVars, schedVars, ctlVars,
    midVars, tailVars, csvVars,
    lockVars,
    delVars,
    persistVars,
    ringVars>>

\* what the global locks leaves alone
nonLockVars == <<outcomeVars, bridgeVars, startVars, schedVars, ctlVars,
    midVars, tailVars, csvVars, cfgVars,
    delVars,
    persistVars,
    ringVars>>

\* what the delete and the writers of the row leaves alone
nonDelVars == <<outcomeVars, bridgeVars, startVars, schedVars, ctlVars,
    midVars, tailVars, csvVars, cfgVars, lockVars,
    persistVars,
    ringVars>>

\* what the throttle of the snapshot leaves alone
nonPersistVars == <<outcomeVars, bridgeVars, startVars, schedVars, ctlVars,
    midVars, tailVars, csvVars, cfgVars, lockVars, delVars,
    ringVars>>

\* what the histories of a job leaves alone
nonRingVars == <<outcomeVars, bridgeVars, startVars, schedVars, ctlVars,
    midVars, tailVars, csvVars, cfgVars, lockVars, delVars, persistVars>>

ZeroCounts == [k \in Kinds |-> 0]
ZeroErr == [c \in ErrClasses |-> 0]
NoEvent == [job |-> NoJob, rcpt |-> "", kind |-> "", code |-> "",
            prev |-> "", cnt0 |-> ZeroCounts]

(***************************************************************************)
(* Outcome Store helpers                                                   *)
(***************************************************************************)
\* SELECT status FROM job_outcomes WHERE job_id=? AND rcpt=?
db_get_outcome(rows, j, r) ==
    LET hit == {row \in rows : row.job_id = j /\ row.rcpt = r}
    IN  IF hit = {} THEN NoRow ELSE (CHOOSE row \in hit : TRUE).status

\* INSERT without the ON CONFLICT clause: a second row for the pair
db_set_outcome_noconflict(rows, j, r, st) ==
    rows \cup {[job_id |-> j, rcpt |-> r, status |-> st]}

\* INSERT ... ON CONFLICT(job_id, rcpt) DO UPDATE SET status=excluded.status
db_set_outcome(rows, j, r, st) ==
    {row \in rows : ~(row.job_id = j /\ row.rcpt = r)}
        \cup {[job_id |-> j, rcpt |-> r, status |-> st]}

RowsOf(rows, j, r) == {row \in rows : row.job_id = j /\ row.rcpt = r}
RowsInStatus(rows, j, k) == {row \in rows : row.job_id = j /\ row.status = k}

(***************************************************************************)
(* _apply_outcome_to_job                                                   *)
(***************************************************************************)
Max0(n) == IF n < 0 THEN 0 ELSE n

\* the guard "don't downgrade finals to deferred" left out
outcome_decision_downgrade(prev, k) ==
    IF prev = k THEN "same" ELSE "change"

\* the three ways through _apply_outcome_to_job once rcpt and kind are valid
outcome_decision(prev, k) ==
    IF prev \in Finals /\ k = "deferred" THEN "skip"
    ELSE IF prev = k THEN "same"
    ELSE "change"

\* dec() that forgets the previous bucket
dec_forgotten(cnt, st) == cnt

dec(cnt, st) == [cnt EXCEPT ![st] = Max0(@ - 1)]

inc(cnt, st) == [cnt EXCEPT ![st] = @ + 1]

\* counters that tally every event, whatever the stored status
apply_counts_tally(cnt, prev, k) == inc(cnt, k)

\* counters of the job after _apply_outcome_to_job(job, rcpt, k)
apply_counts(cnt, prev, k) ==
    IF outcome_decision(prev, k) = "change"
    THEN inc(IF prev # NoRow THEN dec(cnt, prev) ELSE cnt, k)
    ELSE cnt

\* table job_outcomes after _apply_outcome_to_job(job, rcpt, k)
apply_rows(rows, j, r, k) ==
    IF outcome_decision(db_get_outcome(rows, j, r), k) = "change"
    THEN db_set_outcome(rows, j, r, k)
    ELSE rows

(***************************************************************************)
(* _classify_accounting_response / _record_accounting_error                *)
(***************************************************************************)
classify_accounting_response(code, typ) ==
    IF code = "2" THEN "accepted"
    ELSE IF code = "4" THEN "temporary_error"
    ELSE IF code = "5" THEN "blocked"
    ELSE IF typ = "delivered" THEN "accepted"
    ELSE IF typ = "deferred" THEN "temporary_error"
    ELSE IF typ \in {"bounced", "complained"} THEN "blocked"
    ELSE "temporary_error"

record_error_counts(err, code, typ) ==
    [err EXCEPT ![classify_accounting_response(code, typ)] = @ + 1]

(***************************************************************************)
(* Job resolution of process_pmta_accounting_event                         *)
(***************************************************************************)
\* a lookup by campaign that does not prefer the running jobs
find_job_by_campaign_any(cid) ==
    IF cid = NoCampaign THEN {} ELSE {j \in JOBS : JobCampaign[j] = cid}

\* _find_job_by_campaign: the pool whose newest member is returned; the
\* timestamps that order the pool are not modelled, so any member may be it
find_job_by_campaign(cid) ==
    LET candidates == {j \in JOBS : JobCampaign[j] = cid}
        running == {j \in candidates : job_status[j] \in RunningStatuses}
    IN  IF cid = NoCampaign THEN {}
        ELSE IF running # {} THEN running ELSE candidates

\* job.recent_results: worker_send registers a recipient in job_recipients
\* before it sends and pushes the result after, so the recipients of the
\* ring are among the registered ones
recent_results(j) == {r \in Rcpts : <<j, r>> \in job_recipients}

\* _find_job_by_recipient: registry first, then job.recent_results
find_job_by_recipient(r) ==
    LET registered == {j \in JOBS : <<j, r>> \in job_recipients}
        candidates == {j \in JOBS : r \in recent_results(j)}
        running == {j \in candidates : job_status[j] \in RunningStatuses}
    IN  IF registered # {} THEN registered
        ELSE IF running # {} THEN running ELSE candidates

\* JOBS.get(job_id), else by campaign, else by recipient
resolve_job(e) ==
    IF e.job_id # NoJob /\ e.job_id \in JOBS THEN {e.job_id}
    ELSE IF find_job_by_campaign(e.campaign_id) # {}
         THEN find_job_by_campaign(e.campaign_id)
    ELSE find_job_by_recipient(e.rcpt)

(***************************************************************************)
(* Persistence: SendJob.maybe_persist and _job_snapshot_dict               *)
(***************************************************************************)
job_snapshot_dict(st, cnt, err) ==
    [present |-> TRUE, status |-> st, counts |-> cnt, errors |-> err]

\* the throttle of maybe_persist: TRUE when db_upsert_job is reached
persist_writes(counter, due, force) ==
    force \/ counter % PersistEvery = 0 \/ due

\* maybe_persist(force) of job j, with snap the snapshot of its new state;
\* due: whether a second has gone by since job.persist_ts (the clock is
\* the environment's)
maybe_persist(j, force, snap) ==
    LET c == (persist_counter[j] + 1) % PersistEvery
    IN  /\ persist_counter' = [persist_counter EXCEPT ![j] = c]
        /\ \E due \in BOOLEAN :
             jobs_table' = IF persist_writes(c, due, force)
                           THEN [jobs_table EXCEPT ![j] = snap]
                           ELSE jobs_table

\* status_rank of _calculate_job_outcomes (bridge side)
status_rank(k) == IF k = "deferred" THEN 1 ELSE IF k \in Finals THEN 2 ELSE 0

calculate_job_outcomes_step(prev, typ) ==
    IF prev = NoRow THEN typ
    ELSE IF status_rank(typ) >= status_rank(prev) THEN typ ELSE prev

(***************************************************************************)
(* Reconciler state machine                                                *)
(***************************************************************************)
Events ==
    [job_id : Jobs \cup {NoJob, GoneJob}, campaign_id : Campaigns \cup {NoCampaign},
     rcpt : Rcpts, kind : EventKinds, code : CodeLeads]

\* the fields that make two events the same event
SameEvent(a, b) ==
    a.job = b.job /\ a.rcpt = b.rcpt /\ a.kind = b.kind /\ a.code = b.code

\* The reconciler is watched from the point where start() has put both jobs
\* in JOBS, their threads run and worker_send has registered recipients.
InitOutcome ==
    /\ JOBS = Jobs
    /\ job_status = [j \in Jobs |-> "running"]
    /\ outcome_counts = [j \in Jobs |-> ZeroCounts]
    /\ accounting_error_counts = [j \in Jobs |-> ZeroErr]
    /\ persist_counter = [j \in Jobs |-> InitPersistCounter % PersistEvery]
    /\ job_outcomes = {}
    /\ jobs_table = [j \in Jobs |-> job_snapshot_dict("running", ZeroCounts, ZeroErr)]
    /\ job_recipients = {<<"j1", "r1">>, <<"j2", "r1">>, <<"j2", "r2">>}
    /\ JOBS_LOCK = Free
    /\ ev_pc = [t \in Threads |-> "idle"]
    /\ ev_cur = [t \in Threads |-> NoEvent]
    /\ n_events = 0
    /\ last_event = NoEvent
    /\ last_final = [j \in Jobs |-> [r \in Rcpts |-> NoRow]]
    /\ bridge_view = [j \in Jobs |-> [r \in Rcpts |-> NoRow]]

\* smtp_send_job exit: status = "done", a log line, maybe_persist(force=True)
JobFinishes(j) ==
    /\ j \in JOBS
    /\ job_status[j] = "running"
    /\ JOBS_LOCK = Free
    /\ job_status' = [job_status EXCEPT ![j] = "done"]
    /\ persist_counter' = [persist_counter EXCEPT ![j] = (@ + 2) % PersistEvery]
    /\ jobs_table' = [jobs_table EXCEPT ![j] =
          job_snapshot_dict("done", outcome_counts[j], accounting_error_counts[j])]
    /\ UNCHANGED <<JOBS, outcome_counts, accounting_error_counts, job_outcomes,
                   job_recipients, JOBS_LOCK, ev_pc, ev_cur, n_events,
                   last_event, last_final, bridge_view>>
    /\ UNCHANGED nonOutcomeVars

\* process_pmta_accounting_event from its entry to inc(k) of
\* _apply_outcome_to_job: the type and recipient checks, "with JOBS_LOCK",
\* JOBS.get and the two fallbacks, db_get_outcome, the two early returns,
\* dec(prev) and inc(k).  An event that is dropped (unknown type, no job)
\* leaves the state as it is.
EvBegin(t, e) ==
    /\ ev_pc[t] = "idle"
    /\ JOBS_LOCK = Free
    /\ n_events < MaxEvents
    /\ IF e.kind \notin Kinds \/ resolve_job(e) = {}
       THEN UNCHANGED <<JOBS_LOCK, ev_pc, ev_cur, last_final, bridge_view,
                        outcome_counts, n_events>>
       ELSE \E j \in resolve_job(e) :
              LET prev == db_get_outcome(job_outcomes, j, e.rcpt)
              IN  /\ n_events' = n_events + 1
                  /\ JOBS_LOCK' = t
                  /\ ev_pc' = [ev_pc EXCEPT ![t] = "store"]
                  /\ ev_cur' = [ev_cur EXCEPT ![t] =
                                  [job |-> j, rcpt |-> e.rcpt, kind |-> e.kind,
                                   code |-> e.code, prev |-> prev,
                                   cnt0 |-> outcome_counts[j]]]
                  /\ outcome_counts' = [outcome_counts EXCEPT ![j] =
                                           apply_counts(@, prev, e.kind)]
                  /\ last_final' = IF e.kind \in Finals
                                   THEN [last_final EXCEPT ![j][e.rcpt] = e.kind]
                                   ELSE last_final
                  /\ bridge_view' = [bridge_view EXCEPT ![j][e.rcpt] =
                                       calculate_job_outcomes_step(@, e.kind)]
    /\ UNCHANGED <<JOBS, job_status, accounting_error_counts, persist_counter,
                   job_outcomes, jobs_table, job_recipients, last_event>>
    /\ UNCHANGED nonOutcomeVars

\* the rest of process_pmta_accounting_event: db_set_outcome when the status
\* changes, _record_accounting_error, job.maybe_persist() and the release of
\* JOBS_LOCK
EvFinish(t) ==
    /\ ev_pc[t] = "store"
    /\ LET e == ev_cur[t]
           err == record_error_counts(accounting_error_counts[e.job], e.code, e.kind)
       IN  /\ job_outcomes' = apply_rows(job_outcomes, e.job, e.rcpt, e.kind)
           /\ accounting_error_counts' = [accounting_error_counts EXCEPT ![e.job] = err]
           /\ maybe_persist(e.job, FALSE,
                 job_snapshot_dict(job_status[e.job], outcome_counts[e.job], err))
           /\ last_event' = [e EXCEPT !.prev = "", !.cnt0 = ZeroCounts]
    /\ JOBS_LOCK' = Free
    /\ ev_pc' = [ev_pc EXCEPT ![t] = "idle"]
    /\ ev_cur' = [ev_cur EXCEPT ![t] = NoEvent]
    /\ UNCHANGED <<JOBS, job_status, outcome_counts, job_recipients, n_events,
                   last_final, bridge_view>>
    /\ UNCHANGED nonOutcomeVars

\* the process dies and comes back: db_load_jobs_into_memory rebuilds JOBS
\* from the jobs table with _sendjob_from_snapshot
Restart ==
    /\ JOBS' = {j \in Jobs : jobs_table[j].present}
    /\ job_status' = [j \in Jobs |->
          IF ~jobs_table[j].present THEN "queued"
          ELSE IF jobs_table[j].status \in ActiveStatuses THEN "stopped"
          ELSE jobs_table[j].status]
    /\ outcome_counts' = [j \in Jobs |->
          IF jobs_table[j].present THEN jobs_table[j].counts ELSE ZeroCounts]
    /\ accounting_error_counts' = [j \in Jobs |->
          IF jobs_table[j].present THEN jobs_table[j].errors ELSE ZeroErr]
    /\ persist_counter' = [j \in Jobs |->
          IF jobs_table[j].present /\ jobs_table[j].status \in ActiveStatuses
          THEN 1 ELSE 0]
    /\ JOBS_LOCK' = Free
    /\ ev_pc' = [t \in Threads |-> "idle"]
    /\ ev_cur' = [t \in Threads |-> NoEvent]
    /\ UNCHANGED <<job_outcomes, jobs_table, job_recipients, n_events,
                   last_event, last_final, bridge_view>>
    /\ UNCHANGED nonOutcomeVars

NextReconcile ==
    \/ \E j \in Jobs : JobFinishes(j)
    \/ \E t \in Threads, e \in Events : EvBegin(t, e)
    \/ \E t \in Threads : EvFinish(t)

NextOutcome ==
    \/ NextReconcile
    \/ Restart

(***************************************************************************)
(* Accounting bridge: /api/v1/pull with a cursor                           *)
(***************************************************************************)
MaxLines == 3
MaxFiles == 2
PullLimits == {1, 2}

\* a "row" parses to an event; a "skip" line (blank, CSV header, garbage)
\* is read and counted as skipped
LineKinds == {"row", "skip"}

\* bytes of a line, newline included
LineLen(k) == IF k = "skip" THEN 1 ELSE 2

RECURSIVE FileSize(_)
\* st_size of a file with these lines
FileSize(lines) ==
    IF lines = <<>> THEN 0
    ELSE LineLen(Head(lines)) + FileSize(Tail(lines))

\* cursor = "" (no cursor given)
NoCursor == [path |-> 0, inode |-> 0, offset |-> 0, mtime |-> 0]

RECURSIVE CountLines(_)
\* lines written so far, over all the files
CountLines(files) ==
    IF files = <<>> THEN 0
    ELSE Len(Head(files).lines) + CountLines(Tail(files))

\* the files whose name matches the patterns; a file that was rotated away
\* (renamed or removed, its path taken by a new inode) matches no more
matching(f) == f.live

\* fp.open(): the file that is at the path now
open_path(files, path) ==
    LET i == CHOOSE k \in 1..Len(files) : files[k].live /\ files[k].path = path
    IN  files[i]

\* _recent_matching_files: one stat per file, sorted by (mtime, name); files
\* are written one after the other, so that is the order of creation
recent_matching_files(files) ==
    LET found == SelectSeq(files, matching)
    IN  [i \in 1..Len(found) |->
            [path |-> found[i].path, inode |-> found[i].inode,
             size |-> FileSize(found[i].lines), mtime |-> found[i].inode]]

RECURSIVE read_lines(_, _, _, _, _, _)
\* the inner loop of _read_from_cursor on one open file: readline / tell
\* from byte offset off (line i starts at byte at), at most room items
read_lines(f, i, at, off, room, acc) ==
    IF room = 0 \/ i > Len(f.lines) THEN [items |-> acc, pos |-> off]
    ELSE LET nxt == at + LineLen(f.lines[i])
         IN  IF at < off THEN read_lines(f, i + 1, nxt, off, room, acc)
             ELSE IF f.lines[i] = "skip"
                  THEN read_lines(f, i + 1, nxt, nxt, room, acc)
                  ELSE read_lines(f, i + 1, nxt, nxt, room - 1,
                                  Append(acc, <<f.inode, i>>))

RECURSIVE read_files(_, _, _, _, _, _)
\* the outer loop of _read_from_cursor from file idx, offset off
read_files(listing, files, idx, off, limit, items) ==
    LET r == read_lines(open_path(files, listing[idx].path), 1, 0, off,
                        limit - Len(items), <<>>)
        got == items \o r.items
    IN  IF Len(got) >= limit
        THEN [items |-> got, idx |-> idx, offset |-> r.pos]
        ELSE IF idx + 1 > Len(listing)
        THEN [items |-> got, idx |-> idx, offset |-> listing[idx].size]
        ELSE read_files(listing, files, idx + 1, 0, limit, got)

\* a start that always goes back to the head of the file
start_off_head(size, cursor_offset) == 0

\* "start_off = cursor_offset if int(current["size"]) >= cursor_offset else 0"
start_off(size, cursor_offset) == IF size >= cursor_offset THEN cursor_offset ELSE 0

\* a start that knows the file of the cursor by its path alone
cursor_start_by_path(listing, c) ==
    IF c = NoCursor THEN [idx |-> 1, off |-> 0]
    ELSE LET match == {i \in 1..Len(listing) : listing[i].path = c.path}
             i0 == CHOOSE i \in match : TRUE
         IN  IF match # {}
             THEN [idx |-> i0,
                   off |-> IF listing[i0].size >= c.offset THEN c.offset ELSE 0]
             ELSE [idx |-> Len(listing) + 1, off |-> 0]

\* where _read_from_cursor starts: [idx, off]
cursor_start(listing, c) ==
    IF c = NoCursor THEN [idx |-> 1, off |-> 0]
    ELSE LET match == {i \in 1..Len(listing) :
                         listing[i].inode = c.inode /\ listing[i].path = c.path}
             later == {i \in 1..Len(listing) :
                         \/ listing[i].mtime > c.mtime
                         \/ listing[i].mtime = c.mtime /\ listing[i].path > c.path}
             first(S) == CHOOSE i \in S : \A k \in S : i <= k
         IN  IF match # {}
             THEN [idx |-> first(match),
                   off |-> start_off(listing[first(match)].size, c.offset)]
             ELSE IF later # {} THEN [idx |-> first(later), off |-> 0]
             ELSE [idx |-> Len(listing) + 1, off |-> 0]

\* has_more: the file of the cursor has bytes after it, or a file follows
has_more_of(listing, idx, offset) ==
    \/ listing[idx].size > offset
    \/ idx + 1 <= Len(listing)

\* _read_from_cursor(files, cursor_payload, limit): items and next_cursor;
\* listing holds the sizes of the stat, files what open() finds
read_from_cursor(listing, files, c, limit) ==
    LET st == cursor_start(listing, c)
        n == Len(listing)
    IN  IF st.idx > n
        THEN [items |-> <<>>,
              next_cursor |-> [path |-> listing[n].path,
                               inode |-> listing[n].inode,
                               offset |-> listing[n].size,
                               mtime |-> listing[n].mtime],
              has_more |-> FALSE]
        ELSE LET r == read_files(listing, files, st.idx, st.off, limit, <<>>)
             IN  [items |-> r.items,
                  next_cursor |-> [path |-> listing[r.idx].path,
                                   inode |-> listing[r.idx].inode,
                                   offset |-> r.offset,
                                   mtime |-> listing[r.idx].mtime],
                  has_more |-> has_more_of(listing, r.idx, r.offset)]

InitBridge ==
    /\ b_files = <<[path |-> 1, inode |-> 1, lines |-> <<>>, live |-> TRUE]>>
    /\ b_pc = "idle"
    /\ b_listing = <<>>
    /\ b_cursor = NoCursor
    /\ b_emitted = <<>>
    /\ b_has_more = FALSE
    /\ b_last_listing = <<>>

\* PowerMTA appends one line to the newest accounting file
BridgeAppend(k) ==
    /\ CountLines(b_files) < MaxLines
    /\ b_files' = [b_files EXCEPT ![Len(b_files)].lines = Append(@, k)]
    /\ UNCHANGED <<b_pc, b_listing, b_cursor, b_emitted, b_has_more,
                   b_last_listing>>
    /\ UNCHANGED nonBridgeVars

\* PowerMTA starts a new accounting file under a new name
BridgeRotate ==
    /\ Len(b_files) < MaxFiles
    /\ b_files' = Append(b_files,
                         [path |-> b_files[Len(b_files)].path + 1,
                          inode |-> Len(b_files) + 1,
                          lines |-> <<>>, live |-> TRUE])
    /\ UNCHANGED <<b_pc, b_listing, b_cursor, b_emitted, b_has_more,
                   b_last_listing>>
    /\ UNCHANGED nonBridgeVars

\* the newest accounting file is rotated in place: the old inode leaves the
\* path (and the listing), a new, empty inode takes the same path
BridgeRotateInPlace ==
    /\ Len(b_files) < MaxFiles
    /\ b_files' = Append([b_files EXCEPT ![Len(b_files)].live = FALSE],
                         [path |-> b_files[Len(b_files)].path,
                          inode |-> Len(b_files) + 1,
                          lines |-> <<>>, live |-> TRUE])
    /\ UNCHANGED <<b_pc, b_listing, b_cursor, b_emitted, b_has_more,
                   b_last_listing>>
    /\ UNCHANGED nonBridgeVars

\* pull_accounting up to files = _recent_matching_files(patterns)
PullList ==
    /\ b_pc = "idle"
    /\ b_pc' = "listed"
    /\ b_listing' = recent_matching_files(b_files)
    /\ UNCHANGED <<b_files, b_cursor, b_emitted, b_has_more, b_last_listing>>
    /\ UNCHANGED nonBridgeVars

\* pull_accounting from _read_from_cursor to the response; the client keeps
\* next_cursor for its next pull
PullRead(limit) ==
    /\ b_pc = "listed"
    /\ LET res == read_from_cursor(b_listing, b_files, b_cursor, limit)
       IN  /\ b_emitted' = b_emitted \o res.items
           /\ b_cursor' = res.next_cursor
           /\ b_has_more' = res.has_more
    /\ b_pc' = "idle"
    /\ b_listing' = <<>>
    /\ b_last_listing' = b_listing
    /\ UNCHANGED b_files
    /\ UNCHANGED nonBridgeVars

NextBridge ==
    \/ \E k \in LineKinds : BridgeAppend(k)
    \/ BridgeRotate
    \/ BridgeRotateInPlace
    \/ PullList
    \/ \E limit \in PullLimits : PullRead(limit)

(***************************************************************************)
(* POST /start: the start guard, the active-job check, the insert           *)
(***************************************************************************)
\* seconds that go by in one step of the clock
TickSeconds == 90

\* START_GUARD_TTL = 180.0
START_GUARD_TTL == 180

Requests == {"A", "B"}
StartCampaigns == {"c1", "c2"}
NoGuard == -1
NoForm == [campaign_id |-> "", force_new_job |-> FALSE, valid |-> FALSE]
Forms == [campaign_id : StartCampaigns, force_new_job : BOOLEAN, valid : BOOLEAN]

\* the "purge stale" loop of start_guard_acquire
guard_purged(guard) ==
    [c \in StartCampaigns |->
        IF guard[c] # NoGuard /\ guard[c] > START_GUARD_TTL THEN NoGuard ELSE guard[c]]

\* a guard that lets every request in
start_guard_acquire_open(guard, cid) == TRUE

\* the result of start_guard_acquire(cid)
start_guard_acquire(guard, cid) ==
    ~(guard_purged(guard)[cid] # NoGuard /\ guard_purged(guard)[cid] <= START_GUARD_TTL)

\* START_GUARD after start_guard_acquire(cid)
guard_after_acquire(guard, cid) ==
    IF start_guard_acquire(guard, cid)
    THEN [guard_purged(guard) EXCEPT ![cid] = 0]
    ELSE guard_purged(guard)

\* what the Web Monitor of PowerMTA does when start() asks it
MonitorStates == {"disabled", "unreachable", "busy", "ok"}

\* the fields of the result of pmta_health_check that start() reads
pmta_health_check(monitor, required) ==
    [enabled |-> monitor # "disabled",
     ok |-> monitor # "unreachable",
     required |-> (monitor # "disabled" /\ required),
     busy |-> monitor = "busy"]

\* a start() that the monitor never stops
monitor_refuses_never(hc) == FALSE

\* the two 503 of start() after pmta_health_check
monitor_refuses(hc) ==
    hc.enabled /\ ((~hc.ok /\ hc.required) \/ hc.busy)

\* the jobs start() finds active for the campaign
active_jobs(cid) ==
    {r \in Requests : s_req[r].campaign_id = cid /\ s_jobs[r] \in ActiveStatuses}

\* requests between start_guard_acquire and the teardown
InFlight == {r \in Requests : s_pc[r] \in {"guarded", "build", "teardown"}}

InitStart ==
    /\ START_GUARD = [c \in StartCampaigns |-> NoGuard]
    /\ s_pc = [r \in Requests |-> "new"]
    /\ s_req = [r \in Requests |-> NoForm]
    /\ s_resp = [r \in Requests |-> 0]
    /\ s_jobs = [r \in Requests |-> "none"]
    /\ s_overlap = FALSE
    /\ s_takeover = FALSE
    /\ s_hc = [r \in Requests |-> pmta_health_check("disabled", FALSE)]

\* start() from its entry to start_guard_acquire: 429 when the guard is
\* held (g._start_guard_campaign stays unset, so the teardown releases
\* nothing), else g._start_guard_campaign = campaign_id
StartArrive(r, form) ==
    /\ s_pc[r] = "new"
    /\ s_req' = [s_req EXCEPT ![r] = form]
    /\ START_GUARD' = guard_after_acquire(START_GUARD, form.campaign_id)
    /\ IF start_guard_acquire(START_GUARD, form.campaign_id)
       THEN /\ s_pc' = [s_pc EXCEPT ![r] = "guarded"]
            /\ UNCHANGED s_resp
       ELSE /\ s_pc' = [s_pc EXCEPT ![r] = "done"]
            /\ s_resp' = [s_resp EXCEPT ![r] = 429]
    /\ s_overlap' = (s_overlap \/
                     \E o \in InFlight : s_req[o].campaign_id = form.campaign_id)
    /\ s_takeover' = (s_takeover \/
                      \E o \in InFlight :
                          /\ s_req[o].campaign_id = form.campaign_id
                          /\ START_GUARD[form.campaign_id] > START_GUARD_TTL)
    /\ UNCHANGED <<s_jobs, s_hc>>
    /\ UNCHANGED nonStartVars

\* a request that goes on without the active-job check
StartCheckActive_unchecked(r) ==
    /\ s_pc[r] = "guarded"
    /\ s_pc' = [s_pc EXCEPT ![r] = "build"]
    /\ UNCHANGED <<START_GUARD, s_req, s_resp, s_jobs, s_overlap, s_takeover, s_hc>>
    /\ UNCHANGED nonStartVars

\* the active-job check under JOBS_LOCK: 409, unless force_new_job
StartCheckActive(r) ==
    /\ s_pc[r] = "guarded"
    /\ IF ~s_req[r].force_new_job /\ active_jobs(s_req[r].campaign_id) # {}
       THEN /\ s_pc' = [s_pc EXCEPT ![r] = "teardown"]
            /\ s_resp' = [s_resp EXCEPT ![r] = 409]
       ELSE /\ s_pc' = [s_pc EXCEPT ![r] = "build"]
            /\ UNCHANGED s_resp
    /\ UNCHANGED <<START_GUARD, s_req, s_jobs, s_overlap, s_takeover, s_hc>>
    /\ UNCHANGED nonStartVars

\* the rest of start(): pmta_health_check (503), the validation of the
\* form and of the recipient list (400), then JOBS[job_id] = job under
\* JOBS_LOCK and the redirect
StartInsert(r, monitor, required) ==
    /\ s_pc[r] = "build"
    /\ s_pc' = [s_pc EXCEPT ![r] = "teardown"]
    /\ s_hc' = [s_hc EXCEPT ![r] = pmta_health_check(monitor, required)]
    /\ IF monitor_refuses(pmta_health_check(monitor, required))
       THEN /\ s_resp' = [s_resp EXCEPT ![r] = 503]
            /\ UNCHANGED s_jobs
       ELSE IF s_req[r].valid
       THEN /\ s_jobs' = [s_jobs EXCEPT ![r] = "queued"]
            /\ s_resp' = [s_resp EXCEPT ![r] = 302]
       ELSE /\ s_resp' = [s_resp EXCEPT ![r] = 400]
            /\ UNCHANGED s_jobs
    /\ UNCHANGED <<START_GUARD, s_req, s_overlap, s_takeover>>
    /\ UNCHANGED nonStartVars

\* _release_start_guard: start_guard_release(g._start_guard_campaign)
StartTeardown(r) ==
    /\ s_pc[r] = "teardown"
    /\ s_pc' = [s_pc EXCEPT ![r] = "done"]
    /\ START_GUARD' = [START_GUARD EXCEPT ![s_req[r].campaign_id] = NoGuard]
    /\ UNCHANGED <<s_req, s_resp, s_jobs, s_overlap, s_takeover, s_hc>>
    /\ UNCHANGED nonStartVars

\* time.time() moves on while a guard is held
StartTick ==
    /\ \E c \in StartCampaigns :
          START_GUARD[c] # NoGuard /\ START_GUARD[c] <= START_GUARD_TTL
    /\ START_GUARD' = [c \in StartCampaigns |->
          IF START_GUARD[c] # NoGuard /\ START_GUARD[c] <= START_GUARD_TTL
          THEN START_GUARD[c] + TickSeconds ELSE START_GUARD[c]]
    /\ UNCHANGED <<s_pc, s_req, s_resp, s_jobs, s_overlap, s_takeover, s_hc>>
    /\ UNCHANGED nonStartVars

\* the job thread: queued -> running -> done
StartedJobAdvances(r) ==
    /\ s_jobs[r] \in {"queued", "running"}
    /\ s_jobs' = [s_jobs EXCEPT ![r] = IF @ = "queued" THEN "running" ELSE "done"]
    /\ UNCHANGED <<START_GUARD, s_pc, s_req, s_resp, s_overlap, s_takeover, s_hc>>
    /\ UNCHANGED nonStartVars

NextStart ==
    \/ \E r \in Requests, form \in Forms : StartArrive(r, form)
    \/ \E r \in Requests : StartCheckActive(r)
    \/ \E r \in Requests, monitor \in MonitorStates, required \in BOOLEAN :
          StartInsert(r, monitor, required)
    \/ \E r \in Requests : StartTeardown(r)
    \/ StartTick
    \/ \E r \in Requests : StartedJobAdvances(r)

(***************************************************************************)
(* smtp_send_job: provider buckets, scoped backoff, sender pool, counters  *)
(***************************************************************************)
\* the clock of the model stops here
MaxNow == 3
\* preflight blocks in one run
MaxBlocks == 4
\* BACKOFF_BASE_S and BACKOFF_MAX_S as configured for the run (seconds)
backoff_base_s == 1
backoff_max_s == 2
\* BACKOFF_MAX_RETRIES as configured for the run
BACKOFF_MAX_RETRIES == 1

\* the recipients a form can hold, in the order of the form
RcptPool == <<"a@d1", "b@d1", "c@d2">>
RecvDomains == {"d1", "d2"}
\* _extract_domain_from_email
rcpt_domain == [r \in {"a@d1", "b@d1", "c@d2"} |->
                   IF r = "c@d2" THEN "d2" ELSE "d1"]

\* from_emails2 and the domain of each
from_emails == <<"s@x", "s@y">>
SenderDomains == {"x", "y"}
sender_domain_of == [e \in {"s@x", "s@y"} |-> IF e = "s@x" THEN "x" ELSE "y"]

SafeLists == {{}, {"a@d1"}, {"a@d1", "c@d2"}}
ChunkSizes == {1, 2}
NoDomain == ""
NoChunk == [target_domain |-> NoDomain, chunk |-> <<>>, attempt |-> 0,
            sender_cursor_base |-> 0, deferred_wait_until |-> 0,
            deferred_count |-> 0]

RECURSIVE SelectSeq2(_, _)
\* [r for r in list if r in keep]
SelectSeq2(list, keep) ==
    IF list = <<>> THEN <<>>
    ELSE IF Head(list) \in keep
         THEN <<Head(list)>> \o SelectSeq2(Tail(list), keep)
         ELSE SelectSeq2(Tail(list), keep)

\* the non-empty recipient lists a form can hold
ValidLists == {SelectSeq2(RcptPool, S) : S \in (SUBSET {"a@d1", "b@d1", "c@d2"}) \ {{}}}

\* start(): the safe list filter; "filtered" and "safe_skipped"
safe_filtered(valid, safe) ==
    IF safe = {} THEN valid ELSE SelectSeq2(valid, safe)

safe_skipped(valid, safe) ==
    IF safe = {} THEN 0 ELSE Len(valid) - Len(safe_filtered(valid, safe))

RECURSIVE build_order(_, _)
\* build_provider_buckets: the domains in first-seen order
build_order(list, seen) ==
    IF list = <<>> THEN seen
    ELSE IF \E i \in 1..Len(seen) : seen[i] = rcpt_domain[Head(list)]
         THEN build_order(Tail(list), seen)
         ELSE build_order(Tail(list), Append(seen, rcpt_domain[Head(list)]))

\* build_provider_buckets: the bucket of each domain
build_buckets(list) ==
    [d \in RecvDomains |->
        SelectSeq2(list, {r \in DOMAIN rcpt_domain : rcpt_domain[r] = d})]

\* _remaining_total
remaining_total(buckets) ==
    Len(buckets["d1"]) + Len(buckets["d2"])

\* _next_ready_in at time t: 0 when no retry time lies after t
next_ready_in(retry, t) ==
    LET waits == {retry[d] - t : d \in {d \in RecvDomains : retry[d] > t}}
    IN  IF waits = {} THEN 0
        ELSE CHOOSE w \in waits : \A v \in waits : w <= v

\* _next_provider_domain at time t: the index in provider_order of the
\* first domain from the cursor on that has recipients and is not waiting;
\* 0 when there is none
next_provider_index(order, cursor, buckets, retry, t) ==
    LET n == Len(order)
        ok == {step \in 0..(n - 1) :
                 LET d == order[((cursor + step) % n) + 1]
                 IN  buckets[d] # <<>> /\ ~(retry[d] > t)}
    IN  IF n = 0 \/ ok = {} THEN 0
        ELSE ((cursor + (CHOOSE st \in ok : \A o \in ok : st <= o)) % n) + 1

\* wait_s = min(backoff_max_s, backoff_base_s * 2 ** max(0, rel_attempt - 1))
backoff_wait_s(rel_attempt) ==
    LET raw == backoff_base_s * (2 ^ (IF rel_attempt > 1 THEN rel_attempt - 1 ELSE 0))
    IN  IF raw > backoff_max_s THEN backoff_max_s ELSE raw

Max2(a, b) == IF a > b THEN a ELSE b

\* max_backoff_retries of smtp_send_job: the configured value kept in 0..10
max_backoff_retries ==
    Max2(0, IF BACKOFF_MAX_RETRIES < 10 THEN BACKOFF_MAX_RETRIES ELSE 10)

\* the sender of attempt "attempt" of the chunk in hand
sender_of(c) == from_emails[((c.sender_cursor_base + c.attempt) % Len(from_emails)) + 1]

relation_key(c) == <<c.target_domain, sender_domain_of[sender_of(c)]>>

\* a cursor that stays where it is
next_sender_cursor_stuck(base) == base

\* "(sender_cursor_base + 1) % max(1, len(from_emails2))"
next_sender_cursor(base) == (base + 1) % Max2(1, Len(from_emails))

\* a relation check that never defers
relation_waits_never(until, t) == FALSE

\* "if rel_wait_until > now_ts": the pair is still in scoped backoff
relation_waits(until, t) == until > t

\* "provider_cursor = (idx2 + 1) % n" that leaves the cursor at the start
next_provider_cursor_stuck(idx, n) == 0

\* "provider_cursor = (idx2 + 1) % n", idx being idx2 + 1
next_provider_cursor(idx, n) == idx % n

\* the domains _next_provider_domain passes over at time t: no recipients
\* left, or waiting for their retry time
not_ready(buckets, retry, t) ==
    {d \in RecvDomains : buckets[d] = <<>> \/ retry[d] > t}

\* the domains with nothing to dispatch after a step: passed over, and no
\* chunk of theirs in hand
nothing_to_dispatch ==
    {d \in not_ready(provider_buckets', provider_next_retry_ts', now') :
        cur'.target_domain # d}

\* the chunk in hand goes to the sender pool
chunk_dispatched == sched_pc = "send" /\ sched_pc' = "loop"

\* the history of a step: a dispatch for d starts the record of d afresh and
\* enters d in the records of the others; every step enters the domains
\* that have nothing to dispatch after it
round_robin_history ==
    LET out == nothing_to_dispatch
    IN  /\ rr_had' = [d \in RecvDomains |->
                         rr_had[d] \/ (chunk_dispatched /\ cur.target_domain = d)]
        /\ rr_seen' = [d \in RecvDomains |->
              IF chunk_dispatched /\ cur.target_domain = d THEN out \ {d}
              ELSE IF chunk_dispatched
                   THEN (rr_seen[d] \cup out \cup {cur.target_domain}) \ {d}
              ELSE (rr_seen[d] \cup out) \ {d}]

InitSched ==
    /\ now = 0
    /\ sched_pc = "idle"
    /\ sched_status = "none"
    /\ total = 0
    /\ sent = 0
    /\ failed = 0
    /\ skipped = 0
    /\ chunk_size = 1
    /\ provider_buckets = [d \in RecvDomains |-> <<>>]
    /\ provider_order = <<>>
    /\ provider_cursor = 0
    /\ provider_sender_cursor = [d \in RecvDomains |-> 0]
    /\ relation_backoff_until = [k \in RecvDomains \X SenderDomains |-> 0]
    /\ relation_backoff_attempts = [k \in RecvDomains \X SenderDomains |-> 0]
    /\ provider_next_retry_ts = [d \in RecvDomains |-> 0]
    /\ cur = NoChunk
    /\ n_blocks = 0
    /\ rr_had = [d \in RecvDomains |-> FALSE]
    /\ rr_seen = [d \in RecvDomains |-> {}]

\* the part of the scheduler state a requeue or a finished chunk leaves alone
schedJobVars == <<total, skipped, chunk_size, provider_order>>

\* start(): the safe list is applied, the job is created with total and
\* skipped, and smtp_send_job builds the buckets
SchedStart(valid, safe, cs) ==
    /\ sched_pc = "idle"
    /\ safe_filtered(valid, safe) # <<>>
    /\ total' = Len(safe_filtered(valid, safe))
    /\ skipped' = safe_skipped(valid, safe)
    /\ chunk_size' = cs
    /\ provider_buckets' = build_buckets(safe_filtered(valid, safe))
    /\ provider_order' = build_order(safe_filtered(valid, safe), <<>>)
    /\ sched_status' = "running"
    /\ sched_pc' = "loop"
    /\ UNCHANGED <<now, sent, failed, provider_cursor, provider_sender_cursor,
                   relation_backoff_until, relation_backoff_attempts,
                   provider_next_retry_ts, cur, n_blocks>>
    /\ round_robin_history
    /\ UNCHANGED nonSchedVars

\* "while _remaining_total() > 0" is false: job.status = "done"
SchedFinish ==
    /\ sched_pc = "loop"
    /\ remaining_total(provider_buckets) = 0
    /\ sched_status' = "done"
    /\ sched_pc' = "end"
    /\ UNCHANGED <<now, sent, failed, provider_buckets, provider_cursor,
                   provider_sender_cursor, relation_backoff_until,
                   relation_backoff_attempts, provider_next_retry_ts, cur,
                   n_blocks, schedJobVars>>
    /\ round_robin_history
    /\ UNCHANGED nonSchedVars

\* target_domain = _next_provider_domain(), and the chunk is taken from
\* the bucket of the domain
SchedPick ==
    /\ sched_pc = "loop"
    /\ remaining_total(provider_buckets) > 0
    /\ LET idx == next_provider_index(provider_order, provider_cursor,
                                      provider_buckets, provider_next_retry_ts, now)
       IN  IF idx = 0
           THEN /\ sched_pc' = "ready_in"
                /\ UNCHANGED <<provider_buckets, provider_cursor,
                               provider_next_retry_ts, cur>>
           ELSE LET d == provider_order[idx]
                    bucket == provider_buckets[d]
                    n == IF Len(bucket) < chunk_size THEN Len(bucket) ELSE chunk_size
                IN  /\ provider_next_retry_ts' = [provider_next_retry_ts EXCEPT ![d] = 0]
                    /\ provider_cursor' = next_provider_cursor(idx, Len(provider_order))
                    /\ provider_buckets' =
                           [provider_buckets EXCEPT ![d] = SubSeq(bucket, n + 1, Len(bucket))]
                    /\ cur' = [target_domain |-> d,
                               chunk |-> SubSeq(bucket, 1, n),
                               attempt |-> 0,
                               sender_cursor_base |-> provider_sender_cursor[d],
                               deferred_wait_until |-> 0,
                               deferred_count |-> 0]
                    /\ sched_pc' = "attempt"
    /\ UNCHANGED <<now, sched_status, sent, failed, provider_sender_cursor,
                   relation_backoff_until, relation_backoff_attempts, n_blocks,
                   schedJobVars>>
    /\ round_robin_history
    /\ UNCHANGED nonSchedVars

\* no domain was ready: wait_for = _next_ready_in(); sleep and go round
\* again, or break and finish
SchedNextReadyIn ==
    /\ sched_pc = "ready_in"
    /\ LET wait_for == next_ready_in(provider_next_retry_ts, now)
           nap == IF wait_for < 2 THEN wait_for ELSE 2
       IN  IF wait_for > 0 /\ remaining_total(provider_buckets) > 0
           THEN /\ now' = (IF now + nap > MaxNow THEN MaxNow ELSE now + nap)
                /\ sched_pc' = "loop"
                /\ UNCHANGED sched_status
           ELSE /\ sched_status' = "done"
                /\ sched_pc' = "end"
                /\ UNCHANGED now
    /\ UNCHANGED <<sent, failed, provider_buckets, provider_cursor,
                   provider_sender_cursor, relation_backoff_until,
                   relation_backoff_attempts, provider_next_retry_ts, cur,
                   n_blocks, schedJobVars>>
    /\ round_robin_history
    /\ UNCHANGED nonSchedVars

\* a requeue at the tail of the bucket
requeued_buckets_at_tail(c) ==
    [provider_buckets EXCEPT ![c.target_domain] = @ \o c.chunk]

\* the chunk goes back to the head of its bucket and the domain waits
requeued_buckets(c) ==
    [provider_buckets EXCEPT ![c.target_domain] = c.chunk \o @]

requeued_retry(c, wait_until) ==
    [provider_next_retry_ts EXCEPT ![c.target_domain] = Max2(@, wait_until)]

\* top of the attempt loop: the sender of this attempt and the check of
\* its relation with the receiver domain
SchedAttempt ==
    /\ sched_pc = "attempt"
    /\ LET rel_wait_until == relation_backoff_until[relation_key(cur)]
           dwu == Max2(cur.deferred_wait_until, rel_wait_until)
           nxt == [cur EXCEPT !.deferred_wait_until = dwu,
                              !.deferred_count = @ + 1,
                              !.attempt = @ + 1]
       IN  IF relation_waits(rel_wait_until, now)
           THEN IF nxt.deferred_count < Len(from_emails)
                THEN /\ cur' = nxt
                     /\ sched_pc' = "attempt"
                     /\ UNCHANGED <<provider_buckets, provider_next_retry_ts>>
                ELSE /\ provider_buckets' = requeued_buckets(cur)
                     /\ provider_next_retry_ts' = requeued_retry(cur, dwu)
                     /\ cur' = NoChunk
                     /\ sched_pc' = "loop"
           ELSE /\ sched_pc' = "preflight"
                /\ UNCHANGED <<provider_buckets, provider_next_retry_ts, cur>>
    /\ UNCHANGED <<now, sched_status, sent, failed, provider_cursor,
                   provider_sender_cursor, relation_backoff_until,
                   relation_backoff_attempts, n_blocks, schedJobVars>>
    /\ round_robin_history
    /\ UNCHANGED nonSchedVars

\* the preflight checks of the attempt; when they block, the relation gets
\* its backoff and the chunk moves to the next sender or back to the bucket;
\* rel_attempt > max_backoff_retries only writes a line of the job log
SchedPreflight(blocked) ==
    /\ sched_pc = "preflight"
    /\ blocked => n_blocks < MaxBlocks
    /\ IF blocked
       THEN LET key == relation_key(cur)
                rel_attempt == relation_backoff_attempts[key] + 1
                next_ts == now + backoff_wait_s(rel_attempt)
                dwu == Max2(cur.deferred_wait_until, next_ts)
                nxt == [cur EXCEPT !.deferred_wait_until = dwu,
                                   !.deferred_count = @ + 1,
                                   !.attempt = @ + 1]
            IN  /\ relation_backoff_attempts' =
                       [relation_backoff_attempts EXCEPT ![key] = rel_attempt]
                /\ relation_backoff_until' =
                       [relation_backoff_until EXCEPT ![key] = next_ts]
                /\ n_blocks' = n_blocks + 1
                /\ IF nxt.deferred_count >= Len(from_emails)
                   THEN /\ provider_buckets' = requeued_buckets(cur)
                        /\ provider_next_retry_ts' = requeued_retry(cur, dwu)
                        /\ cur' = NoChunk
                        /\ sched_pc' = "loop"
                   ELSE /\ cur' = nxt
                        /\ sched_pc' = "attempt"
                        /\ UNCHANGED <<provider_buckets, provider_next_retry_ts>>
       ELSE /\ sched_pc' = "send"
            /\ UNCHANGED <<relation_backoff_attempts, relation_backoff_until,
                           n_blocks, provider_buckets, provider_next_retry_ts, cur>>
    /\ UNCHANGED <<now, sched_status, sent, failed, provider_cursor,
                   provider_sender_cursor, schedJobVars>>
    /\ round_robin_history
    /\ UNCHANGED nonSchedVars

\* _send_chunk: every recipient of the chunk counts as sent or failed; a
\* worker that dies after k messages counts one failure for the rest
SchedSendChunk(k, worker_error) ==
    /\ sched_pc = "send"
    /\ k \in 0..Len(cur.chunk)
    /\ worker_error => k < Len(cur.chunk)
    /\ sent' = sent + k
    /\ failed' = failed + (IF worker_error THEN 1 ELSE Len(cur.chunk) - k)
    /\ provider_sender_cursor' =
           [provider_sender_cursor EXCEPT ![cur.target_domain] =
               next_sender_cursor(cur.sender_cursor_base)]
    /\ cur' = NoChunk
    /\ sched_pc' = "loop"
    /\ UNCHANGED <<now, sched_status, provider_buckets, provider_cursor,
                   relation_backoff_until, relation_backoff_attempts,
                   provider_next_retry_ts, n_blocks, schedJobVars>>
    /\ round_robin_history
    /\ UNCHANGED nonSchedVars

\* a second passes while the job runs
SchedTick ==
    /\ sched_pc \notin {"idle", "end"}
    /\ now < MaxNow
    /\ now' = now + 1
    /\ UNCHANGED <<sched_pc, sched_status, sent, failed, provider_buckets,
                   provider_cursor, provider_sender_cursor,
                   relation_backoff_until, relation_backoff_attempts,
                   provider_next_retry_ts, cur, n_blocks, schedJobVars>>
    /\ round_robin_history
    /\ UNCHANGED nonSchedVars

NextSched ==
    \/ \E valid \in ValidLists, safe \in SafeLists, cs \in ChunkSizes :
           SchedStart(valid, safe, cs)
    \/ SchedFinish
    \/ SchedPick
    \/ SchedNextReadyIn
    \/ SchedAttempt
    \/ \E blocked \in BOOLEAN : SchedPreflight(blocked)
    \/ \E k \in 0..2, worker_error \in BOOLEAN : SchedSendChunk(k, worker_error)
    \/ SchedTick

(***************************************************************************)
(* The job controller: pause, resume, stop, delete, the checkpoints of     *)
(* smtp_send_job and worker_send, and the process start                    *)
(***************************************************************************)
\* chunks of the job, and recipients of a chunk at most
MaxCtlChunks == 2
MaxCtlChunk == 2

CtlRcpts == {"r1", "r2"}
RestoredReason == "restored from DB (server restarted)"
StopReasons == {"", "stopped by user", "stop requested", "deleted by user",
                RestoredReason}
\* the reasons an operator passes to stop
OperatorReasons == {"", "stopped by user"}
NoJobRow == [present |-> FALSE, status |-> "", stop_reason |-> "",
             paused |-> FALSE, stop_requested |-> FALSE]

\* the statuses the pause paths leave alone
PauseKeeps == {"backoff", "error", "done", "stopped"}

\* _job_snapshot_dict, for the fields the controller reads back
ctl_snapshot(st, reason, p, stop) ==
    [present |-> TRUE, status |-> st, stop_reason |-> reason,
     paused |-> p, stop_requested |-> stop]

\* the row after maybe_persist(force) of a job in the given state; due:
\* the throttle lets the write through
ctl_persisted(row, is_deleted, force, due, st, reason, p, stop) ==
    IF is_deleted THEN row
    ELSE IF force \/ due THEN ctl_snapshot(st, reason, p, stop)
    ELSE row

\* a checkpoint that does not look at stop_requested
wait_ready_nostop(stop, p) ==
    IF p THEN "paused" ELSE "go"

\* _wait_ready: "stop" when stop is requested, "paused" while the job is
\* paused, "go" otherwise
wait_ready(stop, p) ==
    IF stop THEN "stop" ELSE IF p THEN "paused" ELSE "go"

\* the status _wait_ready shows while it waits
paused_status(st) ==
    IF st \in PauseKeeps THEN st ELSE "paused"

\* "a or b" on strings
or_else(a, b) == IF a # "" THEN a ELSE b

InitCtl ==
    /\ ctl_in_JOBS = TRUE
    /\ ctl_status = "queued"
    /\ paused = FALSE
    /\ stop_requested = FALSE
    /\ deleted = FALSE
    /\ stop_reason = ""
    /\ ctl_row = ctl_snapshot("queued", "", FALSE, FALSE)
    /\ ctl_outcome_rows = {}
    /\ t_pc = "spawned"
    /\ t_left = MaxCtlChunks
    /\ w_pc = "idle"
    /\ w_left = 0
    /\ ctl_handled = 0
    /\ del_pc = "none"
    /\ restart_tick = FALSE
    /\ ctl_raised = "none"

\* job.maybe_persist(force) at the end of a step
CtlPersist(force) ==
    \E due \in BOOLEAN :
        ctl_row' = ctl_persisted(ctl_row, deleted, force, due, ctl_status',
                                 stop_reason', paused', stop_requested')

\* what the steps of the thread and of the worker leave alone
ctlApiVars == <<ctl_in_JOBS, deleted, ctl_outcome_rows, del_pc, restart_tick>>

\* the same, for the steps in which nothing is raised
ctlQuietVars == <<ctlApiVars, ctl_raised>>

\* api_job_control, action pause
CtlPause ==
    /\ ctl_in_JOBS
    /\ paused' = TRUE
    /\ ctl_status' = paused_status(ctl_status)
    /\ UNCHANGED <<stop_requested, stop_reason, t_pc, t_left, w_pc, w_left,
                   ctl_handled, ctlQuietVars>>
    /\ CtlPersist(FALSE)
    /\ UNCHANGED nonCtlVars

\* api_job_control, action resume
CtlResume ==
    /\ ctl_in_JOBS
    /\ paused' = FALSE
    /\ ctl_status' = (IF ctl_status = "paused" THEN "running" ELSE ctl_status)
    /\ UNCHANGED <<stop_requested, stop_reason, t_pc, t_left, w_pc, w_left,
                   ctl_handled, ctlQuietVars>>
    /\ CtlPersist(FALSE)
    /\ UNCHANGED nonCtlVars

\* api_job_control, action stop
CtlStop(reason) ==
    /\ ctl_in_JOBS
    /\ stop_requested' = TRUE
    /\ stop_reason' = or_else(reason, or_else(stop_reason, "stopped by user"))
    /\ UNCHANGED <<ctl_status, paused, t_pc, t_left, w_pc, w_left,
                   ctl_handled, ctlQuietVars>>
    /\ CtlPersist(FALSE)
    /\ UNCHANGED nonCtlVars

\* api_job_delete under JOBS_LOCK: the stop of an active job, job.deleted,
\* del JOBS[jid]
CtlDeleteMem ==
    /\ del_pc = "none"
    /\ del_pc' = "db"
    /\ IF ctl_in_JOBS
       THEN /\ IF ctl_status \in ActiveStatuses
               THEN /\ stop_requested' = TRUE
                    /\ paused' = FALSE
                    /\ stop_reason' = or_else(stop_reason, "deleted by user")
                    /\ ctl_status' = "stopped"
                    /\ \E due \in BOOLEAN :
                         ctl_row' = ctl_persisted(ctl_row, deleted, FALSE, due,
                                        ctl_status', stop_reason', paused',
                                        stop_requested')
               ELSE UNCHANGED <<stop_requested, paused, stop_reason,
                                ctl_status, ctl_row>>
            /\ deleted' = TRUE
            /\ ctl_in_JOBS' = FALSE
       ELSE UNCHANGED <<stop_requested, paused, stop_reason, ctl_status,
                        ctl_row, deleted, ctl_in_JOBS>>
    /\ UNCHANGED <<ctl_outcome_rows, t_pc, t_left, w_pc, w_left, ctl_handled,
                   restart_tick,
                   ctl_raised>>
    /\ UNCHANGED nonCtlVars

\* api_job_delete after the lock: db_delete_job(jid), then the answer
CtlDeleteDb ==
    /\ del_pc = "db"
    /\ del_pc' = "returned"
    /\ ctl_row' = NoJobRow
    /\ UNCHANGED <<ctl_in_JOBS, ctl_status, paused, stop_requested, deleted,
                   stop_reason, ctl_outcome_rows, t_pc, t_left, w_pc, w_left,
                   ctl_handled, restart_tick,
                   ctl_raised>>
    /\ UNCHANGED nonCtlVars

\* process_pmta_accounting_event for a recipient of the job: the row of
\* (job_id, rcpt) is stored in job_outcomes
CtlOutcomeStored(r) ==
    /\ ctl_in_JOBS
    /\ ctl_handled > 0
    /\ ctl_outcome_rows' = ctl_outcome_rows \cup {r}
    /\ UNCHANGED <<ctl_in_JOBS, ctl_status, paused, stop_requested, deleted,
                   stop_reason, t_pc, t_left, w_pc, w_left, ctl_handled,
                   del_pc, restart_tick,
                   ctl_raised>>
    /\ CtlPersist(FALSE)
    /\ UNCHANGED nonCtlVars

\* _stop_job("stop requested") and the return of the thread
CtlStopJob ==
    /\ ctl_status' = "stopped"
    /\ stop_reason' = "stop requested"
    /\ t_pc' = "exit"
    /\ UNCHANGED <<paused, stop_requested>>
    /\ CtlPersist(TRUE)

\* the second "with JOBS_LOCK" of a checkpoint that found the job paused:
\* the status shows it, and the thread sleeps
CtlShowPaused ==
    /\ ctl_status' = paused_status(ctl_status)
    /\ UNCHANGED <<paused, stop_requested, stop_reason, ctl_row>>

\* the entry of smtp_send_job: JOBS.get, status = "running", and the
\* guardrail on the sender emails
ThreadBegin(no_senders) ==
    /\ t_pc = "spawned"
    /\ UNCHANGED <<paused, stop_requested, stop_reason>>
    /\ IF ~ctl_in_JOBS
       THEN /\ t_pc' = "exit"
            /\ UNCHANGED <<ctl_status, ctl_row>>
       ELSE /\ ctl_status' = (IF no_senders THEN "error" ELSE "running")
            /\ t_pc' = (IF no_senders THEN "exit" ELSE "loop")
            /\ CtlPersist(FALSE)
    /\ UNCHANGED <<t_left, w_pc, w_left, ctl_handled, ctlQuietVars>>
    /\ UNCHANGED nonCtlVars

\* the head of the scheduler loop: the exit when nothing remains
\* (status = "done", maybe_persist(force=True)), else _wait_ready
ThreadLoop ==
    /\ t_pc = "loop"
    /\ IF t_left = 0
       THEN /\ ctl_status' = "done"
            /\ t_pc' = "exit"
            /\ UNCHANGED <<paused, stop_requested, stop_reason>>
            /\ CtlPersist(TRUE)
       ELSE CASE wait_ready(stop_requested, paused) = "stop" -> CtlStopJob
              [] wait_ready(stop_requested, paused) = "paused" ->
                     /\ t_pc' = "show_paused"
                     /\ UNCHANGED <<ctl_status, paused, stop_requested,
                                    stop_reason, ctl_row>>
              [] OTHER ->
                     /\ t_pc' = "picked"
                     /\ UNCHANGED <<ctl_status, paused, stop_requested,
                                    stop_reason, ctl_row>>
    /\ UNCHANGED <<t_left, w_pc, w_left, ctl_handled, ctlQuietVars>>
    /\ UNCHANGED nonCtlVars

\* _wait_ready of the scheduler after it has read job.paused as set and
\* released JOBS_LOCK: it takes the lock again, shows the status, sleeps
\* and goes round
ThreadShowPaused ==
    /\ t_pc = "show_paused"
    /\ CtlShowPaused
    /\ t_pc' = "loop"
    /\ UNCHANGED <<t_left, w_pc, w_left, ctl_handled, ctlQuietVars>>
    /\ UNCHANGED nonCtlVars

\* the chunk is picked and its preflight done: job.status = "running" and
\* a log line, on the blocked path as on the allowed one
ThreadPreflight(blocked) ==
    /\ t_pc = "picked"
    /\ ctl_status' = "running"
    /\ t_pc' = (IF blocked THEN "loop" ELSE "pre_send")
    /\ UNCHANGED <<paused, stop_requested, stop_reason, t_left, w_pc, w_left,
                   ctl_handled, ctlQuietVars>>
    /\ CtlPersist(FALSE)
    /\ UNCHANGED nonCtlVars

\* _wait_ready before _send_chunk, and the dispatch of the n recipients of
\* the chunk to the worker
ThreadDispatch(n) ==
    /\ t_pc = "pre_send"
    /\ CASE wait_ready(stop_requested, paused) = "stop" ->
                CtlStopJob /\ UNCHANGED <<w_pc, w_left>>
         [] wait_ready(stop_requested, paused) = "paused" ->
                CtlShowPaused /\ UNCHANGED <<t_pc, w_pc, w_left>>
         [] OTHER ->
                /\ t_pc' = "sending"
                /\ w_pc' = "check"
                /\ w_left' = n
                /\ UNCHANGED <<ctl_status, paused, stop_requested, stop_reason,
                               ctl_row>>
    /\ UNCHANGED <<t_left, ctl_handled, ctlQuietVars>>
    /\ UNCHANGED nonCtlVars

\* a worker that does not wait while the job is paused
WorkerCheck_unpaused ==
    /\ t_pc = "sending"
    /\ w_pc = "check"
    /\ w_pc' = (IF w_left = 0 \/ stop_requested THEN "done" ELSE "send")
    /\ UNCHANGED <<ctl_status, paused, stop_requested, stop_reason, ctl_row>>
    /\ UNCHANGED <<t_pc, t_left, w_left, ctl_handled, ctlQuietVars>>
    /\ UNCHANGED nonCtlVars

\* worker_send before a recipient: the end of the list, or _wait_ready
WorkerCheck ==
    /\ t_pc = "sending"
    /\ w_pc = "check"
    /\ IF w_left = 0
       THEN /\ w_pc' = "done"
            /\ UNCHANGED <<ctl_status, paused, stop_requested, stop_reason,
                           ctl_row>>
       ELSE CASE wait_ready(stop_requested, paused) = "stop" ->
                     /\ w_pc' = "done"
                     /\ UNCHANGED <<ctl_status, paused, stop_requested,
                                    stop_reason, ctl_row>>
              [] wait_ready(stop_requested, paused) = "paused" ->
                     /\ w_pc' = "show_paused"
                     /\ UNCHANGED <<ctl_status, paused, stop_requested,
                                    stop_reason, ctl_row>>
              [] OTHER ->
                     /\ w_pc' = "send"
                     /\ UNCHANGED <<ctl_status, paused, stop_requested,
                                    stop_reason, ctl_row>>
    /\ UNCHANGED <<t_pc, t_left, w_left, ctl_handled, ctlQuietVars>>
    /\ UNCHANGED nonCtlVars

\* _wait_ready of a worker after it has read job.paused as set and released
\* JOBS_LOCK
WorkerShowPaused ==
    /\ t_pc = "sending"
    /\ w_pc = "show_paused"
    /\ CtlShowPaused
    /\ w_pc' = "check"
    /\ UNCHANGED <<t_pc, t_left, w_left, ctl_handled, ctlQuietVars>>
    /\ UNCHANGED nonCtlVars

\* worker_send for one recipient: send_message, job.sent or job.failed,
\* push_result
WorkerSend ==
    /\ t_pc = "sending"
    /\ w_pc = "send"
    /\ ctl_handled' = ctl_handled + 1
    /\ w_left' = w_left - 1
    /\ w_pc' = "check"
    /\ UNCHANGED <<ctl_status, paused, stop_requested, stop_reason, t_pc,
                   t_left, ctlQuietVars>>
    /\ CtlPersist(FALSE)
    /\ UNCHANGED nonCtlVars

\* a worker whose exception reaches the scheduler through f.result()
WorkerError_raising ==
    /\ t_pc = "sending"
    /\ w_pc \in {"check", "send"}
    /\ w_left > 0
    /\ w_pc' = "idle"
    /\ ctl_raised' = "worker_send"
    /\ ctl_status' = "error"
    /\ t_pc' = "exit"
    /\ UNCHANGED <<paused, stop_requested, stop_reason, t_left, w_left,
                   ctl_handled, ctlApiVars>>
    /\ CtlPersist(TRUE)
    /\ UNCHANGED nonCtlVars

\* an exception in worker_send outside the send of one message (the SMTP
\* connection, the login, the building of a message): the except clause of
\* the worker counts one failure, logs it, and the worker returns with the
\* recipients it had left
WorkerError ==
    /\ t_pc = "sending"
    /\ w_pc \in {"check", "send"}
    /\ w_left > 0
    /\ w_pc' = "done"
    /\ ctl_raised' = "worker_send"
    /\ ctl_handled' = ctl_handled + 1
    /\ UNCHANGED <<ctl_status, paused, stop_requested, stop_reason, t_pc,
                   t_left, w_left, ctlApiVars>>
    /\ CtlPersist(FALSE)
    /\ UNCHANGED nonCtlVars

\* after _send_chunk (f.result() of the worker has returned, nothing was
\* raised): _should_stop, else the chunk is done
ThreadAfterSend ==
    /\ t_pc = "sending"
    /\ w_pc = "done"
    /\ w_pc' = "idle"
    /\ ctl_raised' = "none"
    /\ IF stop_requested
       THEN CtlStopJob /\ UNCHANGED t_left
       ELSE /\ t_left' = t_left - 1
            /\ t_pc' = "loop"
            /\ UNCHANGED <<ctl_status, paused, stop_requested, stop_reason,
                           ctl_row>>
    /\ UNCHANGED <<w_left, ctl_handled, ctlApiVars>>
    /\ UNCHANGED nonCtlVars

\* an exception in the body of smtp_send_job: status = "error",
\* maybe_persist(force=True)
ThreadError ==
    /\ t_pc \in {"loop", "picked", "pre_send"}
    /\ ctl_status' = "error"
    /\ t_pc' = "exit"
    /\ ctl_raised' = "smtp_send_job"
    /\ UNCHANGED <<paused, stop_requested, stop_reason, t_left, w_pc, w_left,
                   ctl_handled, ctlApiVars>>
    /\ CtlPersist(TRUE)
    /\ UNCHANGED nonCtlVars

\* the process dies and starts again: the threads are gone, the request
\* of a delete in progress too, and db_load_jobs_into_memory rebuilds JOBS
\* with _sendjob_from_snapshot; the log line of the restore is throttled
\* (persist_ts was set the line before), so nothing is written
CtlRestart ==
    /\ restart_tick' = ~restart_tick
    /\ t_pc' = "dead"
    /\ w_pc' = "idle"
    /\ ctl_raised' = "none"
    /\ del_pc' = (IF del_pc = "db" THEN "none" ELSE del_pc)
    /\ IF ctl_row.present
       THEN LET active == ctl_row.status \in ActiveStatuses
            IN  /\ ctl_in_JOBS' = TRUE
                /\ deleted' = FALSE
                /\ ctl_status' = (IF active THEN "stopped" ELSE ctl_row.status)
                /\ stop_requested' = (active \/ ctl_row.stop_requested)
                /\ paused' = (~active /\ ctl_row.paused)
                /\ stop_reason' = (IF active
                                   THEN or_else(ctl_row.stop_reason, RestoredReason)
                                   ELSE ctl_row.stop_reason)
       ELSE /\ ctl_in_JOBS' = FALSE
            /\ UNCHANGED <<deleted, ctl_status, stop_requested, paused,
                           stop_reason>>
    /\ UNCHANGED <<ctl_row, ctl_outcome_rows, t_left, w_left, ctl_handled>>
    /\ UNCHANGED nonCtlVars

NextCtl ==
    \/ CtlPause
    \/ CtlResume
    \/ \E reason \in OperatorReasons : CtlStop(reason)
    \/ CtlDeleteMem
    \/ CtlDeleteDb
    \/ \E r \in CtlRcpts : CtlOutcomeStored(r)
    \/ \E no_senders \in BOOLEAN : ThreadBegin(no_senders)
    \/ ThreadLoop
    \/ ThreadShowPaused
    \/ \E blocked \in BOOLEAN : ThreadPreflight(blocked)
    \/ \E n \in 1..MaxCtlChunk : ThreadDispatch(n)
    \/ WorkerCheck
    \/ WorkerShowPaused
    \/ WorkerSend
    \/ WorkerError
    \/ ThreadAfterSend
    \/ ThreadError
    \/ CtlRestart

(***************************************************************************)
(* The Message-ID: worker_send writes it, the bridge and the reconciler    *)
(* parse it                                                                *)
(***************************************************************************)
\* A text is a sequence of tokens: a delimiter character of the regular
\* expressions (< . @ >), a word (a maximal run of other characters), or a
\* letter followed by a decimal number ("c0", "w1").  Every atom of the three
\* regular expressions stands between two delimiters, so it matches whole
\* tokens only.
MaxChunkIdx == 2
MaxWorkerIdx == 2
Uuids == {"u1", "u2"}
MidJobs == {"j1", "j2", "j3"}
MidCampaigns == {"c1", "c2", "c3"}

\* uuid.uuid4().hex is 32 lower-case hex digits; a job id and a campaign id
\* are the first 12 of one (job_id = uuid.uuid4().hex[:12], and /start takes
\* only a campaign that db_create_campaign made).  The length of a word when
\* all its characters are hex digits, else 0 ("none", "local")
hex_len(w) ==
    IF w \in Uuids THEN 32
    ELSE IF w \in MidJobs \cup MidCampaigns THEN 12
    ELSE 0

Delim(c) == [t |-> "delim", s |-> c, n |-> 0]
Word(w) == [t |-> "word", s |-> w, n |-> 0]
Numbered(letter, k) == [t |-> "num", s |-> letter, n |-> k]

\* f"<{uuid.uuid4().hex}.{job_id}.{(job.campaign_id or 'none')}.c{chunk_idx}.w{worker_idx}@local>"
message_id(u, job_id, campaign_id, chunk_idx, worker_idx) ==
    << Delim("<"), Word(u), Delim("."), Word(job_id), Delim("."),
       Word(IF campaign_id = "" THEN "none" ELSE campaign_id), Delim("."),
       Numbered("c", chunk_idx), Delim("."), Numbered("w", worker_idx),
       Delim("@"), Word("local"), Delim(">") >>

\* one atom of a regular expression against one token
atom_matches(a, tok) ==
    CASE a = "lt" -> tok = Delim("<")
      [] a = "gt" -> tok = Delim(">")
      [] a = "dot" -> tok = Delim(".")
      [] a = "at" -> tok = Delim("@")
      [] a = "local" -> tok = Word("local")
      \* [a-f0-9]{8,64}
      [] a = "hex8_64" -> tok.t = "word" /\ hex_len(tok.s) \in 8..64
      \* [a-f0-9]{12}
      [] a = "hex12" -> tok.t = "word" /\ hex_len(tok.s) = 12
      \* ([a-f0-9]{8,64}|none)
      [] a = "hex8_64_or_none" ->
            tok.t = "word" /\ (hex_len(tok.s) \in 8..64 \/ tok.s = "none")
      \* c[0-9]+ and w[0-9]+
      [] a = "c_digits" -> tok.t = "num" /\ tok.s = "c"
      [] a = "w_digits" -> tok.t = "num" /\ tok.s = "w"
      \* [^.<>@\s]+ and [^>]+ between two delimiters
      [] a = "field" -> tok.t \in {"word", "num"}
      [] a = "host" -> tok.t \in {"word", "num"}
      [] OTHER -> FALSE

match_at(pat, text, i) ==
    /\ i + Len(pat) - 1 <= Len(text)
    /\ \A k \in 1..Len(pat) : atom_matches(pat[k], text[i + k - 1])

\* re.search: the leftmost position where the pattern matches, 0 for None
re_search(pat, text) ==
    LET starts == {i \in 1..Len(text) : match_at(pat, text, i)}
    IN  IF starts = {} THEN 0
        ELSE CHOOSE i \in starts : \A k \in starts : i <= k

\* re.match of a pattern anchored with ^ and $
re_fullmatch(pat, text) == Len(pat) = Len(text) /\ match_at(pat, text, 1)

\* [.]hex{8,64}[.](hex{12})[.](hex{8,64}|none)[.]c[0-9]+[.]w[0-9]+@local
JOBID_RE_1 ==
    << "dot", "hex8_64", "dot", "hex12", "dot", "hex8_64_or_none", "dot",
       "c_digits", "dot", "w_digits", "at", "local" >>

\* [.]hex{8,64}[.](hex{12})[.]c[0-9]+[.]w[0-9]+@local
JOBID_RE_2 ==
    << "dot", "hex8_64", "dot", "hex12", "dot", "c_digits", "dot", "w_digits",
       "at", "local" >>

\* ^<field[.](field)[.](field)[.]c\d+[.]w\d+@host>$
PMTA_MESSAGE_ID_RE ==
    << "lt", "field", "dot", "field", "dot", "field", "dot", "c_digits", "dot",
       "w_digits", "at", "host", "gt" >>

\* _extract_job_id_from_text: group 1 of the first of the two patterns that
\* is found; the ids are lower case already, so lower() changes nothing
extract_job_id_from_text(text) ==
    LET m1 == re_search(JOBID_RE_1, text)
        m2 == re_search(JOBID_RE_2, text)
    IN  IF Len(text) = 0 THEN ""
        ELSE IF m1 # 0 THEN text[m1 + 3].s
        ELSE IF m2 # 0 THEN text[m2 + 3].s
        ELSE ""

\* _parse_ids_from_message_id of the bridge: groups 1 and 2
parse_ids_from_message_id(text) ==
    IF Len(text) = 0 THEN <<"", "">>
    ELSE IF ~re_fullmatch(PMTA_MESSAGE_ID_RE, text) THEN <<"", "">>
    ELSE <<text[4].s, text[6].s>>

NoMsg == [job_id |-> "", campaign_id |-> "", chunk_idx |-> 0, worker_idx |-> 0]

InitMid ==
    /\ mid_pc = "idle"
    /\ mid_msg = NoMsg
    /\ mid_text = << >>
    /\ mid_bridge = <<"", "">>
    /\ mid_extracted = ""

\* worker_send: one recipient of chunk chunk_idx, sent by worker worker_idx
MidSend(u, job_id, campaign_id, chunk_idx, worker_idx) ==
    /\ mid_pc \in {"idle", "parsed"}
    /\ mid_pc' = "sent"
    /\ mid_msg' = [job_id |-> job_id, campaign_id |-> campaign_id,
                   chunk_idx |-> chunk_idx, worker_idx |-> worker_idx]
    /\ mid_text' = message_id(u, job_id, campaign_id, chunk_idx, worker_idx)
    /\ mid_bridge' = <<"", "">>
    /\ mid_extracted' = ""
    /\ UNCHANGED nonMidVars

\* the bridge reads the accounting row of the message
MidBridgeParse ==
    /\ mid_pc = "sent"
    /\ mid_pc' = "bridged"
    /\ mid_bridge' = parse_ids_from_message_id(mid_text)
    /\ UNCHANGED <<mid_msg, mid_text, mid_extracted>>
    /\ UNCHANGED nonMidVars

\* process_pmta_accounting_event on a row without a job-id field:
\* job_id = _extract_job_id_from_text(msgid)
MidExtract ==
    /\ mid_pc = "bridged"
    /\ mid_pc' = "parsed"
    /\ mid_extracted' = extract_job_id_from_text(mid_text)
    /\ UNCHANGED <<mid_msg, mid_text, mid_bridge>>
    /\ UNCHANGED nonMidVars

NextMid ==
    \/ \E u \in Uuids, j \in MidJobs, c \in MidCampaigns,
          k \in 0..MaxChunkIdx, w \in 0..MaxWorkerIdx : MidSend(u, j, c, k, w)
    \/ MidBridgeParse
    \/ MidExtract

(***************************************************************************)
(* The bridge poller: _accounting_bridge_poller_thread and                 *)
(* _poll_accounting_bridge_once                                            *)
(***************************************************************************)
MaxPolls == 4
MaxRows == 2

\* next_cursor values a bridge can answer with; NoNextCursor: the response
\* has no next_cursor key
BridgeCursors == {"C1", "C2"}
NoNextCursor == ""

\* why a pull fails
PullErrors == {"bridge_request_failed", "invalid_bridge_json",
               "invalid_bridge_payload"}

\* the query string of the request: kind, max_lines and all, and nothing
\* else; the cursor it carries is none
request_cursor(last_next) == NoNextCursor

InitTail ==
    /\ tl_pc = [t \in Threads |-> "sleep"]
    /\ tl_req_cursor = NoNextCursor
    /\ tl_last_ok = FALSE
    /\ tl_last_next = NoNextCursor
    /\ tl_received = {}
    /\ tl_debug = [attempts |-> 0, success_count |-> 0, failure_count |-> 0,
                   last_ok |-> FALSE, last_error |-> "", last_bridge_count |-> 0]

\* the poller thread wakes up, or POST /api/accounting/bridge/pull arrives:
\* _poll_accounting_bridge_once up to urlopen, or its return when no pull
\* URL is configured (the API answers 400 before it calls it)
TailRequest(t, url_configured) ==
    /\ tl_pc[t] = "sleep"
    /\ tl_debug.attempts < MaxPolls
    /\ IF ~url_configured
       THEN /\ tl_debug' = IF t = "pull_once" THEN tl_debug
                           ELSE [tl_debug EXCEPT !.attempts = @ + 1,
                                                 !.last_ok = FALSE,
                                                 !.last_error = "bridge_pull_url_not_configured"]
            /\ UNCHANGED <<tl_pc, tl_req_cursor, tl_last_ok>>
       ELSE /\ tl_req_cursor' = request_cursor(tl_last_next)
            /\ tl_pc' = [tl_pc EXCEPT ![t] = "waiting"]
            /\ UNCHANGED <<tl_debug, tl_last_ok>>
    /\ UNCHANGED <<tl_last_next, tl_received>>
    /\ UNCHANGED nonTailVars

\* the request fails, or the response is no JSON, or it holds no list
TailFail(t, err) ==
    /\ tl_pc[t] = "waiting"
    /\ tl_debug' = [tl_debug EXCEPT !.attempts = @ + 1,
                                    !.failure_count = @ + 1,
                                    !.last_ok = FALSE,
                                    !.last_error = err]
    /\ tl_last_ok' = FALSE
    /\ tl_pc' = [tl_pc EXCEPT ![t] = "sleep"]
    /\ UNCHANGED <<tl_req_cursor, tl_last_next, tl_received>>
    /\ UNCHANGED nonTailVars

\* a response with rows rows and next_cursor next: every row goes through
\* process_pmta_accounting_event; no other key of the response is read
TailSuccess(t, rows, next) ==
    /\ tl_pc[t] = "waiting"
    /\ tl_debug' = [tl_debug EXCEPT !.attempts = @ + 1,
                                    !.success_count = @ + 1,
                                    !.last_ok = TRUE,
                                    !.last_error = "",
                                    !.last_bridge_count = rows]
    /\ tl_last_ok' = TRUE
    /\ tl_last_next' = next
    /\ tl_received' = IF next = NoNextCursor THEN tl_received
                      ELSE tl_received \cup {next}
    /\ tl_pc' = [tl_pc EXCEPT ![t] = "sleep"]
    /\ UNCHANGED tl_req_cursor
    /\ UNCHANGED nonTailVars

NextTail ==
    \/ \E t \in Threads, url_configured \in BOOLEAN : TailRequest(t, url_configured)
    \/ \E t \in Threads, err \in PullErrors : TailFail(t, err)
    \/ \E t \in Threads, rows \in 0..MaxRows,
          next \in BridgeCursors \cup {NoNextCursor} : TailSuccess(t, rows, next)

(***************************************************************************)
(* The parser of accounting lines: _parse_accounting_line, the same in     *)
(* shiva_app.py and in the bridge.  A line is blank, a CSV header (one of  *)
(* its fields is type, event, rcpt, recipient, msgid, message-id or        *)
(* message_id) or a CSV data row, with a number of fields.                 *)
(***************************************************************************)
MaxCsvLines == 4
FieldCounts == {5, 9}
CsvLines == {[kind |-> "blank", n |-> 0]}
            \cup {[kind |-> k, n |-> n] : k \in {"header", "row"}, n \in FieldCounts}
NoHeader == 0
NoEv == [by |-> "none", rcpt |-> FALSE]

\* a parser that emits nothing for a row read before any header
parse_accounting_line_strict(line, hdr) ==
    IF line.kind = "blank" THEN [ev |-> NoEv, hdr |-> hdr]
    ELSE IF line.kind = "header" THEN [ev |-> NoEv, hdr |-> line.n]
    ELSE IF hdr = NoHeader THEN [ev |-> NoEv, hdr |-> hdr]
    ELSE IF hdr = line.n THEN [ev |-> [by |-> "header", rcpt |-> TRUE], hdr |-> hdr]
    ELSE [ev |-> [by |-> "position", rcpt |-> line.n >= 9], hdr |-> hdr]

\* _parse_accounting_line: None for a blank line and for a header, which is
\* remembered; a row as long as the remembered header is keyed by its
\* columns; any other row falls back to the positions of the headerless
\* accounting CSV (type first; mailfrom, rcpt, status, dsn* when it has nine
\* fields or more)
parse_accounting_line(line, hdr) ==
    IF line.kind = "blank" THEN [ev |-> NoEv, hdr |-> hdr]
    ELSE IF line.kind = "header" THEN [ev |-> NoEv, hdr |-> line.n]
    ELSE IF hdr # NoHeader /\ hdr = line.n
         THEN [ev |-> [by |-> "header", rcpt |-> TRUE], hdr |-> hdr]
    ELSE [ev |-> [by |-> "position", rcpt |-> line.n >= 9], hdr |-> hdr]

InitCsv ==
    /\ csv_lines = <<>>
    /\ csv_pos = 0
    /\ PMTA_ACC_HEADERS = NoHeader
    /\ csv_events = <<>>

\* the accounting source emits one more line
CsvEmitLine(line) ==
    /\ Len(csv_lines) < MaxCsvLines
    /\ csv_lines' = Append(csv_lines, line)
    /\ UNCHANGED <<csv_pos, PMTA_ACC_HEADERS, csv_events>>
    /\ UNCHANGED nonCsvVars

\* the loop over the rows of a pull: the next line is parsed and, unless the
\* parser returned None, handed on as an event
CsvReadLine ==
    /\ csv_pos < Len(csv_lines)
    /\ LET r == parse_accounting_line(csv_lines[csv_pos + 1], PMTA_ACC_HEADERS)
       IN  /\ PMTA_ACC_HEADERS' = r.hdr
           /\ csv_events' = IF r.ev = NoEv THEN csv_events
                            ELSE Append(csv_events,
                                        [line |-> csv_pos + 1, by |-> r.ev.by,
                                         rcpt |-> r.ev.rcpt])
    /\ csv_pos' = csv_pos + 1
    /\ UNCHANGED csv_lines
    /\ UNCHANGED nonCsvVars

NextCsv ==
    \/ \E line \in CsvLines : CsvEmitLine(line)
    \/ CsvReadLine

(***************************************************************************)
(* The configuration: APP_CONFIG_SCHEMA, the app_config table of the UI    *)
(* overrides, the runtime globals and the start of the bridge poller.      *)
(* Values are the canonical strings the table holds ("1"/"0" for a bool).  *)
(***************************************************************************)
MaxBoots == 2
CfgKeys == {"PMTA_BRIDGE_PULL_ENABLED", "PMTA_BRIDGE_PULL_URL",
            "DB_CLEAR_ON_START", "PMTA_HEALTH_REQUIRED"}
BoolKeys == CfgKeys \ {"PMTA_BRIDGE_PULL_URL"}
CfgValues == {"0", "1", "", "u1"}
NoValue == "unset"

\* the restart_required flag of the schema
restart_required(k) ==
    k \in {"PMTA_BRIDGE_PULL_ENABLED", "PMTA_BRIDGE_PULL_URL", "DB_CLEAR_ON_START"}

\* what the module-level assignments give a global from the environment
env_default(k) ==
    CASE k = "PMTA_BRIDGE_PULL_ENABLED" -> "1"
      [] k = "PMTA_BRIDGE_PULL_URL" -> ""
      [] k = "DB_CLEAR_ON_START" -> "0"
      [] k = "PMTA_HEALTH_REQUIRED" -> "1"

module_globals(env) ==
    [k \in CfgKeys |-> IF env[k] = NoValue THEN env_default(k) ELSE env[k]]

\* _cfg_validate_and_canon, on values already in canonical form
cfg_validate(k, v) ==
    /\ k \in CfgKeys
    /\ k \in BoolKeys => v \in {"0", "1"}

\* _cfg_get_raw_and_source and cfg_get_*: the UI override, else the
\* environment, else the default of the caller
cfg_get(db, env, k, default) ==
    IF db[k] # NoValue THEN db[k]
    ELSE IF env[k] # NoValue THEN env[k]
    ELSE default

\* the globals reload_runtime_config assigns, among the keys of the model
ReloadedKeys == {"PMTA_BRIDGE_PULL_ENABLED", "PMTA_BRIDGE_PULL_URL",
                 "PMTA_HEALTH_REQUIRED"}

\* reload_runtime_config: the assignments to the globals
reload_runtime_config(db, env, rt) ==
    [k \in CfgKeys |->
        IF k \notin ReloadedKeys THEN rt[k]
        ELSE IF k = "PMTA_HEALTH_REQUIRED" THEN cfg_get(db, env, k, "1")
        ELSE cfg_get(db, env, k, rt[k])]

\* start_accounting_bridge_poller_if_needed: the value of
\* _BRIDGE_POLLER_STARTED after the call
poller_started_after(rt, started) ==
    IF rt["PMTA_BRIDGE_PULL_ENABLED"] # "1" THEN started ELSE TRUE

Envs == {[k \in CfgKeys |-> NoValue],
         [k \in CfgKeys |-> IF k = "PMTA_BRIDGE_PULL_ENABLED" THEN "0" ELSE NoValue]}

\* the globals and the poller once the module is loaded: the module-level
\* assignments, the module-level start of the poller, then the reload
booted_runtime(db, env) == reload_runtime_config(db, env, module_globals(env))

booted_poller(db, env) ==
    poller_started_after(booted_runtime(db, env),
                         poller_started_after(module_globals(env), FALSE))

InitCfg ==
    /\ cfg_env = [k \in CfgKeys |-> NoValue]
    /\ app_config = [k \in CfgKeys |-> NoValue]
    /\ cfg_runtime = booted_runtime(app_config, cfg_env)
    /\ BRIDGE_POLLER_STARTED = booted_poller(app_config, cfg_env)
    /\ cfg_boots = 0
    /\ cfg_last = [key |-> NoValue, value |-> NoValue, status |-> 0]

\* api_config_set, one key: validation (400), db_set_app_config, then
\* reload_runtime_config, which ends with the start of the poller
CfgSet(k, v) ==
    /\ cfg_last' = [key |-> k, value |-> v,
                    status |-> IF cfg_validate(k, v) THEN 200 ELSE 400]
    /\ IF cfg_validate(k, v)
       THEN /\ app_config' = [app_config EXCEPT ![k] = v]
            /\ cfg_runtime' = reload_runtime_config(app_config', cfg_env, cfg_runtime)
            /\ BRIDGE_POLLER_STARTED' =
                   poller_started_after(cfg_runtime', BRIDGE_POLLER_STARTED)
       ELSE UNCHANGED <<app_config, cfg_runtime, BRIDGE_POLLER_STARTED>>
    /\ UNCHANGED <<cfg_env, cfg_boots>>
    /\ UNCHANGED nonCfgVars

\* the process restarts in the environment env: the table stays, the
\* globals and the poller are those of a fresh load of the module
CfgRestart(env) ==
    /\ cfg_boots < MaxBoots
    /\ cfg_boots' = cfg_boots + 1
    /\ cfg_env' = env
    /\ cfg_runtime' = booted_runtime(app_config, env)
    /\ BRIDGE_POLLER_STARTED' = booted_poller(app_config, env)
    /\ cfg_last' = [key |-> NoValue, value |-> NoValue, status |-> 0]
    /\ UNCHANGED app_config
    /\ UNCHANGED nonCfgVars

NextCfg ==
    \/ \E k \in CfgKeys, v \in CfgValues : CfgSet(k, v)
    \/ \E env \in Envs : CfgRestart(env)

(***************************************************************************)
(* The two global locks.  Each thread runs a sequence of acquisitions and  *)
(* releases, the ones its code performs with "with JOBS_LOCK" and          *)
(* "with DB_LOCK"; both are threading.Lock, so an acquisition waits for    *)
(* as long as another thread holds the lock.                               *)
(***************************************************************************)
MaxLockRounds == 2
LockThreads == {"reconciler", "sender", "campaign_delete"}
Locks == {"JOBS_LOCK", "DB_LOCK"}
NoOwner == "free"

\* process_pmta_accounting_event: under JOBS_LOCK, db_set_outcome and then
\* maybe_persist -> db_upsert_job, each under DB_LOCK
reconciler_locks ==
    << <<"acquire", "JOBS_LOCK">>, <<"acquire", "DB_LOCK">>, <<"release", "DB_LOCK">>,
       <<"acquire", "DB_LOCK">>, <<"release", "DB_LOCK">>, <<"release", "JOBS_LOCK">> >>

\* _stop_job and the end of smtp_send_job: under JOBS_LOCK,
\* maybe_persist(force=True) -> db_upsert_job under DB_LOCK
sender_locks ==
    << <<"acquire", "JOBS_LOCK">>, <<"acquire", "DB_LOCK">>, <<"release", "DB_LOCK">>,
       <<"release", "JOBS_LOCK">> >>

\* db_delete_campaign: under DB_LOCK, the deletes, then "with JOBS_LOCK"
\* for the jobs in memory
campaign_delete_locks ==
    << <<"acquire", "DB_LOCK">>, <<"acquire", "JOBS_LOCK">>, <<"release", "JOBS_LOCK">>,
       <<"release", "DB_LOCK">> >>

lock_program(t) ==
    CASE t = "reconciler" -> reconciler_locks
      [] t = "sender" -> sender_locks
      [] t = "campaign_delete" -> campaign_delete_locks

\* the operation a thread is about to perform, <<"return", "">> at the end
next_op(t) ==
    IF lk_pc[t] < Len(lock_program(t)) THEN lock_program(t)[lk_pc[t] + 1]
    ELSE <<"return", "">>

InitLock ==
    /\ lk_held = [l \in Locks |-> NoOwner]
    /\ lk_pc = [t \in LockThreads |-> 0]
    /\ lk_rounds = [t \in LockThreads |-> 0]

\* Lock.acquire: goes through when the lock is free
LkAcquire(t) ==
    /\ next_op(t)[1] = "acquire"
    /\ lk_held[next_op(t)[2]] = NoOwner
    /\ lk_held' = [lk_held EXCEPT ![next_op(t)[2]] = t]
    /\ lk_pc' = [lk_pc EXCEPT ![t] = @ + 1]
    /\ UNCHANGED lk_rounds
    /\ UNCHANGED nonLockVars

\* the end of a with block
LkRelease(t) ==
    /\ next_op(t)[1] = "release"
    /\ lk_held' = [lk_held EXCEPT ![next_op(t)[2]] = NoOwner]
    /\ lk_pc' = [lk_pc EXCEPT ![t] = @ + 1]
    /\ UNCHANGED lk_rounds
    /\ UNCHANGED nonLockVars

\* the function returns; the thread will run it again
LkReturn(t) ==
    /\ next_op(t)[1] = "return"
    /\ lk_rounds[t] < MaxLockRounds
    /\ lk_rounds' = [lk_rounds EXCEPT ![t] = @ + 1]
    /\ lk_pc' = [lk_pc EXCEPT ![t] = 0]
    /\ UNCHANGED lk_held
    /\ UNCHANGED nonLockVars

NextLock ==
    \/ \E t \in LockThreads : LkAcquire(t)
    \/ \E t \in LockThreads : LkRelease(t)
    \/ \E t \in LockThreads : LkReturn(t)

(***************************************************************************)
(* A delete of a job against the writers of its snapshot row.  The sender  *)
(* thread and the reconciler call maybe_persist inside "with JOBS_LOCK";   *)
(* start() calls it after it has released the lock.                        *)
(***************************************************************************)
MaxPersists == 2
Persisters == {"start", "sender", "reconciler"}

\* the callers that hold JOBS_LOCK around maybe_persist
persists_under_lock(p) == p # "start"

\* how many times a caller persists: once for start()
persist_limit(p) == IF p = "start" THEN 1 ELSE MaxPersists

InitDel ==
    /\ dl_deleted = FALSE
    /\ dl_in_JOBS = TRUE
    /\ dl_row = FALSE
    /\ dl_pc = "none"
    /\ dl_lock = NoOwner
    /\ dl_ps = [p \in Persisters |-> "idle"]
    /\ dl_n = [p \in Persisters |-> 0]

\* a caller reaches job.maybe_persist, with JOBS_LOCK when it takes it; the
\* reconciler has found the job in JOBS
DlPersistBegin(p) ==
    /\ dl_ps[p] = "idle"
    /\ dl_n[p] < persist_limit(p)
    /\ p = "reconciler" => dl_in_JOBS
    /\ IF persists_under_lock(p)
       THEN dl_lock = NoOwner /\ dl_lock' = p
       ELSE UNCHANGED dl_lock
    /\ dl_ps' = [dl_ps EXCEPT ![p] = "maybe_persist"]
    /\ UNCHANGED <<dl_deleted, dl_in_JOBS, dl_row, dl_pc, dl_n>>
    /\ UNCHANGED nonDelVars

\* maybe_persist: "if self.deleted: return", then the throttle (due, or
\* force for start())
DlMaybePersist(p, due) ==
    /\ dl_ps[p] = "maybe_persist"
    /\ dl_ps' = [dl_ps EXCEPT ![p] =
                    IF dl_deleted \/ (~due /\ p # "start")
                    THEN "return" ELSE "db_upsert_job"]
    /\ UNCHANGED <<dl_deleted, dl_in_JOBS, dl_row, dl_pc, dl_lock, dl_n>>
    /\ UNCHANGED nonDelVars

\* db_upsert_job: "if job.deleted: return", then the snapshot is built
DlUpsertCheck(p) ==
    /\ dl_ps[p] = "db_upsert_job"
    /\ dl_ps' = [dl_ps EXCEPT ![p] = IF dl_deleted THEN "return" ELSE "insert"]
    /\ UNCHANGED <<dl_deleted, dl_in_JOBS, dl_row, dl_pc, dl_lock, dl_n>>
    /\ UNCHANGED nonDelVars

\* db_upsert_job under DB_LOCK: INSERT ... ON CONFLICT DO UPDATE
DlInsert(p) ==
    /\ dl_ps[p] = "insert"
    /\ dl_row' = TRUE
    /\ dl_ps' = [dl_ps EXCEPT ![p] = "return"]
    /\ UNCHANGED <<dl_deleted, dl_in_JOBS, dl_pc, dl_lock, dl_n>>
    /\ UNCHANGED nonDelVars

\* maybe_persist returns and the caller leaves its with block
DlReturn(p) ==
    /\ dl_ps[p] = "return"
    /\ dl_ps' = [dl_ps EXCEPT ![p] = "idle"]
    /\ dl_n' = [dl_n EXCEPT ![p] = @ + 1]
    /\ dl_lock' = (IF dl_lock = p THEN NoOwner ELSE dl_lock)
    /\ UNCHANGED <<dl_deleted, dl_in_JOBS, dl_row, dl_pc>>
    /\ UNCHANGED nonDelVars

\* api_job_delete under JOBS_LOCK: job.deleted = True, del JOBS[jid]
DlDeleteMem ==
    /\ dl_pc = "none"
    /\ dl_lock = NoOwner
    /\ dl_deleted' = TRUE
    /\ dl_in_JOBS' = FALSE
    /\ dl_pc' = "db"
    /\ UNCHANGED <<dl_row, dl_lock, dl_ps, dl_n>>
    /\ UNCHANGED nonDelVars

\* api_job_delete after the lock: db_delete_job(jid), then the answer
DlDeleteDb ==
    /\ dl_pc = "db"
    /\ dl_row' = FALSE
    /\ dl_pc' = "returned"
    /\ UNCHANGED <<dl_deleted, dl_in_JOBS, dl_lock, dl_ps, dl_n>>
    /\ UNCHANGED nonDelVars

NextDel ==
    \/ \E p \in Persisters : DlPersistBegin(p)
    \/ \E p \in Persisters, due \in BOOLEAN : DlMaybePersist(p, due)
    \/ \E p \in Persisters : DlUpsertCheck(p)
    \/ \E p \in Persisters : DlInsert(p)
    \/ \E p \in Persisters : DlReturn(p)
    \/ DlDeleteMem
    \/ DlDeleteDb

(***************************************************************************)
(* The throttle of SendJob.maybe_persist against the clock.  The clock     *)
(* ticks in half seconds, so that "less than 1.0 s" is less than           *)
(* PersistThrottle ticks.                                                  *)
(***************************************************************************)
MaxClock == 5
PersistThrottle == 2

\* the condition of maybe_persist under which db_upsert_job is not reached
persist_throttled(force, counter, now_t, ts) ==
    ~force /\ counter % PersistEvery # 0 /\ (now_t - ts) < PersistThrottle

\* the job after start(): one forced write has been made
InitPersist ==
    /\ ps_counter = 1
    /\ ps_now = 0
    /\ persist_ts = 0
    /\ ps_written_at = 0
    /\ ps_since = 0
    /\ ps_force = FALSE
    /\ ps_result = "written"

\* time.time() moves on
PsTick ==
    /\ ps_now < MaxClock
    /\ ps_now' = ps_now + 1
    /\ UNCHANGED <<ps_counter, persist_ts, ps_written_at, ps_since, ps_force,
                   ps_result>>
    /\ UNCHANGED nonPersistVars

\* job.maybe_persist(force) of a job that is not deleted; fails: the write
\* of db_upsert_job raises, which maybe_persist swallows
PsEvent(force, fails) ==
    LET c == (ps_counter + 1) % PersistEvery
        \* the events are counted up to PersistEvery
        more == IF ps_since < PersistEvery THEN ps_since + 1 ELSE ps_since
    IN  /\ ps_counter' = c
        /\ ps_force' = force
        /\ IF persist_throttled(force, c, ps_now, persist_ts)
           THEN /\ ps_result' = "throttled"
                /\ ps_since' = more
                /\ UNCHANGED <<persist_ts, ps_written_at>>
           ELSE /\ persist_ts' = ps_now
                /\ IF fails
                   THEN /\ ps_result' = "failed"
                        /\ ps_since' = more
                        /\ UNCHANGED ps_written_at
                   ELSE /\ ps_result' = "written"
                        /\ ps_since' = 0
                        /\ ps_written_at' = ps_now
        /\ UNCHANGED ps_now
        /\ UNCHANGED nonPersistVars

NextPersist ==
    \/ PsTick
    \/ \E force \in BOOLEAN, fails \in BOOLEAN : PsEvent(force, fails)

(***************************************************************************)
(* The histories a job keeps in memory: job.recent_results and             *)
(* job.chunk_states, by their lengths                                      *)
(***************************************************************************)
MaxResults == 601
ChunkStatesLimit == 600
ChunkStatesKept == 400
SnapshotResults == 400

\* "lst = lst[-keep:]" when "len(lst) > limit", on the length
trimmed(n, limit, keep) == IF n > limit THEN keep ELSE n

\* the length of "(job.recent_results or [])[-400:]" of _job_snapshot_dict
snapshot_results(n) == IF n > SnapshotResults THEN SnapshotResults ELSE n

InitRing ==
    /\ recent_results_len = 0
    /\ chunk_states_len = 0

\* job.push_result: the result is appended to job.recent_results
push_result ==
    /\ recent_results_len < MaxResults
    /\ recent_results_len' = recent_results_len + 1
    /\ UNCHANGED chunk_states_len
    /\ UNCHANGED nonRingVars

\* job.push_chunk_state: append, then keep the last 400 when over 600
push_chunk_state ==
    /\ chunk_states_len' =
           trimmed(chunk_states_len + 1, ChunkStatesLimit, ChunkStatesKept)
    /\ UNCHANGED recent_results_len
    /\ UNCHANGED nonRingVars

NextRing ==
    \/ push_result
    \/ push_chunk_state

Init ==
    /\ InitOutcome
    /\ InitBridge
    /\ InitStart
    /\ InitSched
    /\ InitCtl
    /\ InitMid
    /\ InitTail
    /\ InitCsv
    /\ InitCfg
    /\ InitLock
    /\ InitDel
    /\ InitPersist
    /\ InitRing

SpecReconcile == Init /\ [][NextReconcile]_vars

SpecOutcome == Init /\ [][NextOutcome]_vars

SpecBridge == Init /\ [][NextBridge]_vars

SpecStart == Init /\ [][NextStart]_vars

SpecSched == Init /\ [][NextSched]_vars

SpecCtl == Init /\ [][NextCtl]_vars

\* the steps of the thread of smtp_send_job and of the worker of the pool:
\* both are threads of the process, every wait of theirs is a sleep of at
\* most 0.35 s, so each of them takes its next step whenever it has one
ThreadStep ==
    \/ \E no_senders \in BOOLEAN : ThreadBegin(no_senders)
    \/ ThreadLoop
    \/ ThreadShowPaused
    \/ \E blocked \in BOOLEAN : ThreadPreflight(blocked)
    \/ \E n \in 1..MaxCtlChunk : ThreadDispatch(n)
    \/ ThreadAfterSend

WorkerStep == WorkerCheck \/ WorkerShowPaused \/ WorkerSend

\* the controller with its threads scheduled fairly; the operator, the
\* exceptions and the restarts come when they come
SpecCtlFair ==
    Init /\ [][NextCtl]_vars /\ WF_vars(ThreadStep) /\ WF_vars(WorkerStep)

SpecMid == Init /\ [][NextMid]_vars

SpecTail == Init /\ [][NextTail]_vars

SpecCsv == Init /\ [][NextCsv]_vars

SpecCfg == Init /\ [][NextCfg]_vars

SpecLock == Init /\ [][NextLock]_vars

SpecDel == Init /\ [][NextDel]_vars

SpecPersist == Init /\ [][NextPersist]_vars

SpecRing == Init /\ [][NextRing]_vars

(***************************************************************************)
(* Properties of the reconciler and the Outcome Store                      *)
(***************************************************************************)
\* C1: after every step (so after each accounting event) the Outcome Store
\* holds at most one row per (job, recipient), the stored status of a pair
\* is never weaker than before (no row < deferred < final), and a stored
\* final is never replaced by deferred.
C1_OneRowNeverWeaker ==
    [][\A j \in Jobs, r \in Rcpts :
          /\ Cardinality(RowsOf(job_outcomes', j, r)) <= 1
          /\ status_rank(db_get_outcome(job_outcomes', j, r))
                >= status_rank(db_get_outcome(job_outcomes, j, r))
          /\ db_get_outcome(job_outcomes, j, r) \in Finals
                => db_get_outcome(job_outcomes', j, r) # "deferred"]_vars

\* a deferred event was processed for a pair whose stored status is a final
C1_Witness ==
    /\ JOBS_LOCK = Free
    /\ last_event.kind = "deferred"
    /\ db_get_outcome(job_outcomes, last_event.job, last_event.rcpt) \in Finals

\* C2: for every job, whenever no accounting event is being processed
\* (JOBS_LOCK is free), each per-status counter equals the number of rows of
\* the job in that status, and the four counters add up to the number of
\* distinct recipients with a row for the job.
C2_CountersEqualRows ==
    JOBS_LOCK = Free =>
        \A j \in JOBS :
            /\ \A k \in Kinds :
                 outcome_counts[j][k] = Cardinality(RowsInStatus(job_outcomes, j, k))
            /\ outcome_counts[j]["delivered"] + outcome_counts[j]["bounced"]
                 + outcome_counts[j]["deferred"] + outcome_counts[j]["complained"]
                 = Cardinality({r \in Rcpts : RowsOf(job_outcomes, j, r) # {}})

\* C8 (as amended): processing an event that is the same as the event
\* processed last leaves the Outcome Store and the per-status counters
\* delivered / bounced / deferred / complained of every job as they were.
C8_RepeatKeepsStoreAndOutcomeCounters ==
    [][\A t \in Threads :
          /\ (ev_pc[t] = "idle" /\ ev_pc'[t] = "store"
                /\ SameEvent(ev_cur'[t], last_event))
                => outcome_counts' = outcome_counts
          /\ (ev_pc[t] = "store" /\ ev_pc'[t] = "idle"
                /\ SameEvent(ev_cur[t], last_event))
                => /\ job_outcomes' = job_outcomes
                   /\ outcome_counts' = outcome_counts]_vars

\* the second application of an event is under way
C8_Witness ==
    \E t \in Threads : ev_pc[t] = "store" /\ SameEvent(ev_cur[t], last_event)

\* C8 (as stated): processing an event that is the same as the event
\* processed last leaves the Outcome Store and all the counters of the job,
\* the per-class counters of accounting_error_counts included, as they were.
C8_RepeatKeepsAllCounters ==
    [][\A t \in Threads :
          /\ (ev_pc[t] = "idle" /\ ev_pc'[t] = "store"
                /\ SameEvent(ev_cur'[t], last_event))
                => outcome_counts' = outcome_counts
          /\ (ev_pc[t] = "store" /\ ev_pc'[t] = "idle"
                /\ SameEvent(ev_cur[t], last_event))
                => /\ job_outcomes' = job_outcomes
                   /\ outcome_counts' = outcome_counts
                   /\ accounting_error_counts' = accounting_error_counts]_vars

\* C9: whenever no event is being processed, the stored status of a pair is
\* the kind of the final event that arrived last for it if one arrived,
\* else deferred if an event arrived, else there is no row (and this is what
\* the bridge's own promotion rule holds); and an event that changes the
\* status of its pair from p to k moves exactly one unit from counter p to
\* counter k of the job, while an event that leaves the status alone leaves
\* the counters alone.
C9_LastFinalWinsUnitMoves ==
    [][/\ JOBS_LOCK' = Free =>
            \A j \in Jobs, r \in Rcpts :
                /\ db_get_outcome(job_outcomes', j, r) =
                      IF last_final'[j][r] # NoRow THEN last_final'[j][r]
                      ELSE IF bridge_view'[j][r] # NoRow THEN "deferred"
                      ELSE NoRow
                /\ db_get_outcome(job_outcomes', j, r) = bridge_view'[j][r]
       /\ \A t \in Threads :
            (ev_pc[t] = "store" /\ ev_pc'[t] = "idle") =>
                LET e == ev_cur[t]
                    p == db_get_outcome(job_outcomes, e.job, e.rcpt)
                    q == db_get_outcome(job_outcomes', e.job, e.rcpt)
                    cnt == outcome_counts'[e.job]
                IN  /\ \A j \in Jobs \ {e.job} : outcome_counts'[j] = outcome_counts[j]
                    /\ p = q => cnt = e.cnt0
                    /\ p # q =>
                         /\ q = e.kind
                         /\ cnt[q] = e.cnt0[q] + 1
                         /\ p # NoRow => cnt[p] = e.cnt0[p] - 1
                         /\ \A k \in Kinds \ {p, q} : cnt[k] = e.cnt0[k]]_vars

\* a final of another kind is overwriting a stored final
C9_Witness ==
    \E t \in Threads :
        /\ ev_pc[t] = "store"
        /\ ev_cur[t].prev \in Finals
        /\ ev_cur[t].kind \in Finals
        /\ ev_cur[t].prev # ev_cur[t].kind

(***************************************************************************)
(* Properties of the bridge cursor                                         *)
(***************************************************************************)
RECURSIVE rows_before(_, _, _, _)
\* the rows of the files that end at or before cursor c, oldest first
rows_before(files, c, idx, acc) ==
    IF idx > Len(files) \/ c = NoCursor \/ files[idx].inode > c.inode THEN acc
    ELSE LET f == files[idx]
             ends(i) == FileSize(SubSeq(f.lines, 1, i))
             mine == {i \in 1..Len(f.lines) :
                        /\ f.lines[i] = "row"
                        /\ f.inode = c.inode => ends(i) <= c.offset}
             RECURSIVE in_order(_, _)
             in_order(i, a) ==
                 IF i > Len(f.lines) THEN a
                 ELSE in_order(i + 1,
                               IF i \in mine THEN Append(a, <<f.inode, i>>) ELSE a)
         IN  rows_before(files, c, idx + 1, in_order(1, acc))

\* C3: along a chain of pulls, each made with the next_cursor of the one
\* before, the lines handed out are exactly the rows that lie before the
\* cursor the client now holds, each once and in file order: no row before
\* the cursor was skipped, and no row at or after it was handed out (so the
\* next pull cannot hand a row out again), whatever is appended between or
\* during the pulls and however the limit splits them.  (While every file
\* is still at its path: what a rotation in place does is C19.)
C3_CursorExactlyOnce ==
    (b_pc = "idle" /\ \A i \in 1..Len(b_files) : b_files[i].live) =>
        b_emitted = rows_before(b_files, b_cursor, 1, <<>>)

(***************************************************************************)
(* Properties of POST /start                                               *)
(***************************************************************************)
\* C4: when two start requests for the same campaign, neither with
\* force_new_job, are processed concurrently (the second meets the guard
\* while the first is in flight and its guard is not older than the TTL, so
\* no guard was taken over), they never both insert a job; and once both are
\* answered, if their forms are valid and the monitor refused neither,
\* exactly one has created a job and the other was rejected (429 from the
\* guard, or 409 from the active-job check).
C4_OneStartWins ==
    \A a \in Requests : \A b \in Requests \ {a} :
        ( /\ s_overlap /\ ~s_takeover
          /\ s_pc[a] # "new" /\ s_pc[b] # "new"
          /\ s_req[a].campaign_id = s_req[b].campaign_id
          /\ ~s_req[a].force_new_job /\ ~s_req[b].force_new_job )
        => /\ ~(s_jobs[a] # "none" /\ s_jobs[b] # "none")
           /\ ( s_pc[a] = "done" /\ s_pc[b] = "done"
                /\ s_req[a].valid /\ s_req[b].valid
                /\ s_resp[a] # 503 /\ s_resp[b] # 503 )
              => \E w \in {a, b} :
                    /\ s_jobs[w] # "none"
                    /\ \A l \in {a, b} \ {w} :
                          s_jobs[l] = "none" /\ s_resp[l] \in {429, 409}

\* two valid concurrent starts of one campaign were both answered
C4_Witness ==
    /\ s_overlap /\ ~s_takeover
    /\ s_pc = [r \in Requests |-> "done"]
    /\ s_req["A"].campaign_id = s_req["B"].campaign_id
    /\ \A r \in Requests : s_req[r].valid /\ ~s_req[r].force_new_job
    /\ \E r \in Requests : s_resp[r] = 429
    /\ \E r \in Requests : s_jobs[r] # "none"

\* C5: no chunk is handed to the sender pool for a pair (receiver domain,
\* sender domain) while the clock is still before the retry time of the pair
C5_NoDispatchDuringBackoff ==
    sched_pc = "send" => ~(now < relation_backoff_until[relation_key(cur)])

\* a chunk is being sent on a pair that was in backoff and whose retry time
\* has come
C5_Witness ==
    /\ sched_pc = "send"
    /\ relation_backoff_attempts[relation_key(cur)] > 0
    /\ relation_backoff_until[relation_key(cur)] > 0
    /\ ~(now < relation_backoff_until[relation_key(cur)])

\* C6: a backoff on one pair delays only chunks of that pair: whenever the
\* scheduler holds a receiver domain with pending recipients back, every
\* sender domain is still in backoff with that receiver domain
C6_OnlyOwnPairDelays ==
    \A d \in RecvDomains :
        (/\ sched_pc = "loop"
         /\ provider_buckets[d] # <<>>
         /\ provider_next_retry_ts[d] > now)
        => \A sd \in SenderDomains : relation_backoff_until[<<d, sd>>] > now

\* C7: the job becomes done only when every receiver-domain bucket is empty
C7_DoneOnlyWhenBucketsEmpty ==
    sched_status = "done" => \A d \in RecvDomains : provider_buckets[d] = <<>>

\* C10: at every point of the life of a job, sent + failed + skipped <= total
C10_CountersWithinTotal ==
    sched_status # "none" => sent + failed + skipped <= total

\* C11: done, error and stopped are terminal: once the job has one of
\* them no step changes its status to a non-terminal value, and no step
\* starts a send or dispatches a chunk for it
C11_TerminalIsFinal ==
    [][(ctl_status \in TerminalStatuses) =>
          (/\ ctl_status' \in TerminalStatuses
           /\ (w_pc' = "send" => w_pc = "send")
           /\ (t_pc' = "sending" => t_pc = "sending"))]_vars

\* C12: after stop is requested no worker starts the send of a further
\* recipient and the scheduler dispatches no further chunk, while a send
\* in flight is completed and counted
C12_StopStartsNothingNew ==
    [][stop_requested =>
          (/\ (w_pc' = "send" => w_pc = "send")
           /\ (t_pc' = "sending" => t_pc = "sending")
           /\ ((w_pc = "send" /\ w_pc' # "send" /\ t_pc' # "dead")
                 => ctl_handled' = ctl_handled + 1))]_vars

\* the thread has stopped on a stop request in the middle of a chunk: some
\* recipients were handled and some of the chunk were left unsent
C12_Witness ==
    /\ stop_requested
    /\ ~deleted
    /\ t_pc = "exit"
    /\ ctl_status = "stopped"
    /\ ctl_handled > 0
    /\ w_left > 0

\* C13: once delete has returned the job is absent from JOBS, its row in
\* table jobs is gone, all its rows in job_outcomes are gone, and a thread
\* still running has its stop request
C13_DeleteRemovesEverything ==
    del_pc = "returned" =>
        /\ ~ctl_in_JOBS
        /\ ~ctl_row.present
        /\ ctl_outcome_rows = {}
        /\ (t_pc \notin {"exit", "dead"} => stop_requested)

\* a stop reason that begins with "restored"
begins_restored(reason) == reason = RestoredReason

\* C15: a process start that finds the job persisted as queued, running,
\* backoff or paused leaves it stopped with a reason beginning with
\* "restored", in JOBS and in its row, and with no thread
C15_RestartRewritesActive ==
    [][(restart_tick' # restart_tick /\ ctl_row.present
          /\ ctl_row.status \in ActiveStatuses) =>
          (/\ ctl_in_JOBS'
           /\ ctl_status' = "stopped"
           /\ begins_restored(stop_reason')
           /\ ctl_row'.status = "stopped"
           /\ begins_restored(ctl_row'.stop_reason)
           /\ t_pc' = "dead")]_vars

\* C14 as stated: a request that passes force_new_job creates its job only
\* when the campaign has no active job
C14_ForceCreatesOnlyWithoutActive ==
    [][\A r \in Requests :
          (s_req[r].force_new_job /\ s_jobs[r] = "none" /\ s_jobs'[r] # "none")
             => active_jobs(s_req[r].campaign_id) = {}]_vars

\* C14, amended: a request that does not pass force_new_job goes on to
\* create a job only when its check finds no active job of the campaign,
\* and is answered 409 without creating one when the check finds one
C14_PlainStartChecksActive ==
    [][\A r \in Requests :
          (~s_req[r].force_new_job /\ s_pc[r] = "guarded" /\ s_pc'[r] # "guarded")
             => IF active_jobs(s_req[r].campaign_id) = {}
                THEN s_pc'[r] = "build"
                ELSE (s_pc'[r] = "teardown" /\ s_resp'[r] = 409
                      /\ s_jobs'[r] = "none")]_vars

\* a request without force_new_job was turned away with 409 and created
\* nothing, while a job of its campaign is active
C14_Witness ==
    \E r \in Requests :
        /\ ~s_req[r].force_new_job
        /\ s_resp[r] = 409
        /\ s_jobs[r] = "none"
        /\ active_jobs(s_req[r].campaign_id) # {}


(***************************************************************************)
(* Properties of the Message-ID                                            *)
(***************************************************************************)
\* C16: for every Message-ID that worker_send emits, the parsing of the
\* bridge recovers the job id and the campaign id of the send, and the
\* reconciler's extraction recovers the job id of the send
C16_MessageIdRecoversIds ==
    mid_pc = "parsed" =>
        /\ mid_bridge = <<mid_msg.job_id, mid_msg.campaign_id>>
        /\ mid_extracted = mid_msg.job_id

nothing_new_since_last_pull ==
    /\ b_cursor # NoCursor
    /\ b_listing = b_last_listing
    /\ recent_matching_files(b_files) = b_last_listing

rotated_in_place(listing, c) ==
    /\ c # NoCursor
    /\ \E i \in 1..Len(listing) :
           listing[i].path = c.path /\ listing[i].inode # c.inode

RECURSIVE rows_of(_, _, _)
\* the rows of a file from its first byte on, as the pull names them
rows_of(f, i, acc) ==
    IF i > Len(f.lines) THEN acc
    ELSE rows_of(f, i + 1,
                 IF f.lines[i] = "row" THEN Append(acc, <<f.inode, i>>) ELSE acc)

RECURSIVE rows_from(_, _, _, _)
\* the rows of the listed files from the one at path on, each from offset 0
rows_from(listing, files, path, idx) ==
    IF idx > Len(listing) THEN <<>>
    ELSE IF listing[idx].path < path THEN rows_from(listing, files, path, idx + 1)
    ELSE rows_of(open_path(files, listing[idx].path), 1, <<>>)
            \o rows_from(listing, files, path, idx + 1)

C20_PullCarriesNextCursor ==
    [][(\E t \in Threads : tl_pc[t] = "sleep" /\ tl_pc'[t] = "waiting") =>
          (/\ tl_last_ok => tl_req_cursor' = tl_last_next
           /\ tl_req_cursor' # NoNextCursor => tl_req_cursor' \in tl_received)]_vars

\* C21: at most one poll (the request and the processing of its rows) is
\* in progress in the process at any time
C21_PollsNeverOverlap ==
    \A t1 \in Threads : \A t2 \in Threads :
        (tl_pc[t1] = "waiting" /\ tl_pc[t2] = "waiting") => t1 = t2

(***************************************************************************)
(* Properties of the job resolution                                        *)
(***************************************************************************)
\* the event names no job of JOBS
unresolved_by_id(e) == e.job_id = NoJob \/ e.job_id \notin JOBS

\* C22 as stated: for an event whose job is not found by its id, the
\* fallbacks select only a job whose status is queued, running, backoff or
\* paused (and the event is dropped when there is none)
C22_FallbackSelectsOnlyActive ==
    \A e \in Events :
        unresolved_by_id(e) =>
            \A j \in resolve_job(e) : job_status[j] \in ActiveStatuses

\* C22, amended: the fallbacks select a job of the campaign that is running,
\* in backoff or paused when there is one, else any job of the campaign,
\* else a job the recipient is registered for, whatever its status; the
\* event is dropped only when none of these exists
C22_FallbackPrefersRunning ==
    \A e \in Events :
        unresolved_by_id(e) =>
            LET byc == {j \in JOBS : /\ e.campaign_id # NoCampaign
                                     /\ JobCampaign[j] = e.campaign_id}
                run == {j \in byc : job_status[j] \in RunningStatuses}
                byr == {j \in JOBS : <<j, e.rcpt>> \in job_recipients}
            IN  /\ run # {} => resolve_job(e) = run
                /\ (run = {} /\ byc # {}) => resolve_job(e) = byc
                /\ byc = {} => resolve_job(e) = byr

\* an event is being stored for a finished job, a job that the fallbacks
\* select for an event without a job id
C22_Witness ==
    \E t \in Threads : \E e \in Events :
        /\ e.job_id = NoJob
        /\ ev_pc[t] = "store"
        /\ ev_cur[t].job \in resolve_job(e)
        /\ job_status[ev_cur[t].job] = "done"

(***************************************************************************)
(* Properties of the monitor gate of POST /start                           *)
(***************************************************************************)
\* C23 as stated: with the monitor required and busy or unreachable, start
\* answers 503 and creates no job; with the monitor not required, a valid
\* request creates its job whatever the monitor says
C23_MonitorGateByRequired ==
    [][\A r \in Requests :
          (s_pc[r] = "build" /\ s_pc'[r] = "teardown") =>
              LET hc == s_hc'[r]
                  trouble == hc.enabled /\ (~hc.ok \/ hc.busy)
              IN  /\ (trouble /\ hc.required) =>
                         (s_resp'[r] = 503 /\ s_jobs'[r] = "none")
                  /\ (~hc.required /\ s_req[r].valid) => s_jobs'[r] = "queued"]_vars

\* C23, amended: start answers 503 and creates no job when the monitor is
\* unreachable in required mode or reports busy in either mode; an
\* unreachable monitor that is not required does not keep a valid request
\* from creating its job
C23_MonitorGate ==
    [][\A r \in Requests :
          (s_pc[r] = "build" /\ s_pc'[r] = "teardown") =>
              LET hc == s_hc'[r]
              IN  /\ (hc.enabled /\ ((~hc.ok /\ hc.required) \/ hc.busy)) =>
                         (s_resp'[r] = 503 /\ s_jobs'[r] = "none")
                  /\ (hc.enabled /\ ~hc.ok /\ ~hc.required /\ s_req[r].valid) =>
                         s_jobs'[r] = "queued"]_vars

\* a request was refused with 503 by a busy monitor that is not required
C23_Witness ==
    \E r \in Requests :
        /\ s_resp[r] = 503
        /\ s_jobs[r] = "none"
        /\ s_hc[r].busy
        /\ ~s_hc[r].required

(***************************************************************************)
(* Properties of the parser of accounting lines                            *)
(***************************************************************************)
\* no header among the lines read so far
no_header_read == \A i \in 1..csv_pos : csv_lines[i].kind # "header"

\* the header in force when line i is read: the last one before it
header_before(i) ==
    IF \E h \in 1..(i - 1) : csv_lines[h].kind = "header"
    THEN csv_lines[CHOOSE h \in 1..(i - 1) :
                       /\ csv_lines[h].kind = "header"
                       /\ \A g \in (h + 1)..(i - 1) : csv_lines[g].kind # "header"].n
    ELSE NoHeader

\* C24 as stated: as long as no header line has been read, no event has been
\* produced
C24_NoEventBeforeHeader == no_header_read => csv_events = <<>>

\* C24, amended: every data row read produces exactly one event, in the order
\* of the lines, a header and a blank line none; a row read before any header
\* is parsed by position, a row read after a header with as many fields as
\* the header is parsed by the header's columns
C24_RowsParsedWithOrWithoutHeader ==
    LET rows == {i \in 1..csv_pos : csv_lines[i].kind = "row"}
    IN  /\ Len(csv_events) = Cardinality(rows)
        /\ \A k \in 1..Len(csv_events) :
              /\ csv_events[k].line \in rows
              /\ \A l \in 1..(k - 1) : csv_events[l].line < csv_events[k].line
              /\ LET i == csv_events[k].line
                 IN  /\ header_before(i) = NoHeader => csv_events[k].by = "position"
                     /\ header_before(i) = csv_lines[i].n =>
                            (csv_events[k].by = "header" /\ csv_events[k].rcpt)

\* a row was read before the header and emitted by position, and a row
\* read after the header was emitted by the header's columns
C24_Witness ==
    /\ Len(csv_events) >= 2
    /\ csv_lines[1].kind = "row"
    /\ csv_events[1] = [line |-> 1, by |-> "position", rcpt |-> TRUE]
    /\ \E k \in 2..Len(csv_events) :
          /\ csv_events[k].by = "header"
          /\ csv_lines[csv_events[k].line - 1].kind = "header"

(***************************************************************************)
(* Properties of the configuration                                         *)
(***************************************************************************)
\* C25: a write of a key flagged restart_required is stored in the table and
\* leaves the runtime global of the key, and the bridge poller, as they
\* were; within one run of the process no global of a flagged key and no
\* poller state changes; a write of a key without the flag is applied to
\* its global
C25_RestartRequiredNotAppliedLive ==
    [][(cfg_boots' = cfg_boots) =>
          /\ \A k \in CfgKeys :
                restart_required(k) => cfg_runtime'[k] = cfg_runtime[k]
          /\ BRIDGE_POLLER_STARTED' = BRIDGE_POLLER_STARTED
          /\ (cfg_last'.status = 200 /\ cfg_last' # cfg_last) =>
                /\ app_config'[cfg_last'.key] = cfg_last'.value
                /\ ~restart_required(cfg_last'.key) =>
                       cfg_runtime'[cfg_last'.key] = cfg_last'.value]_vars

(***************************************************************************)
(* Properties of the retries of a blocked chunk                            *)
(***************************************************************************)
\* C26: a chunk blocked by preflight is retried at most BACKOFF_MAX_RETRIES
\* times: no preflight starts for a pair (receiver domain, sender domain)
\* that preflight has already blocked more than max_backoff_retries times
C26_ExhaustedRelationNotRetried ==
    [][(sched_pc # "preflight" /\ sched_pc' = "preflight") =>
          relation_backoff_attempts[relation_key(cur')] <= max_backoff_retries]_vars

(***************************************************************************)
(* Properties of stop and pause at the checkpoints                         *)
(***************************************************************************)
\* a stop is requested and the thread of the job has work in hand: it is at
\* the head of the loop with chunks left (paused or not, after a backoff or
\* between two chunks), holds a chunk, or waits for its worker
stop_pending ==
    /\ ctl_in_JOBS
    /\ stop_requested
    /\ \/ t_pc = "loop" /\ t_left > 0
       \/ t_pc \in {"show_paused", "picked", "pre_send", "sending"}

\* what takes the job out of the hands of its thread: an exception in
\* smtp_send_job, a restart of the process, the deletion of the job
stop_overtaken == ctl_status = "error" \/ t_pc = "dead" \/ ~ctl_in_JOBS

\* C27: under fair scheduling of the thread and of the worker, a stop
\* requested while the thread has work in hand leads to status stopped,
\* whatever the paused flag says and with no resume; only an exception, a
\* restart or a deletion can come first
C27_StopEventuallyHonoured ==
    stop_pending ~> ((ctl_status = "stopped" /\ t_pc = "exit") \/ stop_overtaken)

\* the thread has stopped a job that is still paused
C27_Witness ==
    /\ ctl_in_JOBS
    /\ t_pc = "exit"
    /\ ctl_status = "stopped"
    /\ stop_reason = "stop requested"
    /\ stop_requested
    /\ paused

\* C28: with the paused flag set, no checkpoint lets its thread go on: the
\* worker at its checkpoint starts no send, the scheduler at its
\* checkpoints picks and dispatches no chunk, until resume clears the flag;
\* and, the exception of a worker aside, the recipients in hand are touched
\* by nothing but the sends, each of which handles exactly one of them, so
\* that after the resume the worker goes on with the recipients that were
\* left, none skipped and none sent twice
C28_PauseHoldsAtCheckpoints ==
    [][/\ paused => /\ ~(w_pc = "check" /\ w_pc' = "send")
                    /\ ~(t_pc = "pre_send" /\ t_pc' = "sending")
                    /\ ~(t_pc = "loop" /\ t_pc' = "picked")
       /\ (w_pc' = "send" /\ w_pc # "send") => (w_pc = "check" /\ ~paused)
       /\ ((w_left' # w_left \/ ctl_handled' # ctl_handled)
              /\ ctl_raised' # "worker_send") =>
              \/ /\ t_pc = "pre_send" /\ t_pc' = "sending"
                 /\ ~paused
                 /\ ctl_handled' = ctl_handled
              \/ /\ w_pc = "send"
                 /\ w_left' = w_left - 1
                 /\ ctl_handled' = ctl_handled + 1]_vars

\* the worker waits at its checkpoint, in the middle of a chunk, while the
\* job is paused
C28_Witness ==
    /\ paused /\ ~stop_requested
    /\ ctl_status = "paused"
    /\ t_pc = "sending"
    /\ w_pc = "check"
    /\ w_left >= 1
    /\ ctl_handled >= 1

(***************************************************************************)
(* Properties of the exceptions                                            *)
(***************************************************************************)
\* C29: an exception in a worker is caught in the worker: it counts one
\* failure of the job, the worker returns, the thread of the scheduler
\* stays where it is and the status of the job does not become error; the
\* scheduler then goes on to the loop for the next chunk (or stops, when a
\* stop is requested); an exception in the scheduler is caught in
\* smtp_send_job, which ends with status error
C29_ExceptionsAreContained ==
    [][/\ (ctl_raised' = "worker_send" /\ ctl_raised # "worker_send") =>
              /\ w_pc' = "done"
              /\ ctl_handled' = ctl_handled + 1
              /\ t_pc = "sending" /\ t_pc' = "sending"
              /\ ctl_status' = ctl_status
       /\ (ctl_raised = "worker_send" /\ t_pc = "sending"
              /\ t_pc' \notin {"sending", "dead"}) =>
              \/ t_pc' = "loop" /\ t_left' = t_left - 1 /\ ctl_status' = ctl_status
              \/ stop_requested /\ t_pc' = "exit" /\ ctl_status' = "stopped"
       /\ (ctl_raised' = "smtp_send_job" /\ ctl_raised # "smtp_send_job") =>
              /\ t_pc' = "exit"
              /\ ctl_status' = "error"
              /\ (~deleted => ctl_row'.status = "error")]_vars

\* a worker has caught its exception with a recipient left and has
\* returned; the job is still running and its thread is about to read the
\* result of the worker
C29_Witness ==
    /\ t_pc = "sending"
    /\ w_pc = "done"
    /\ ctl_raised = "worker_send"
    /\ ctl_status = "running"
    /\ w_left >= 1
    /\ t_left >= 1

(***************************************************************************)
(* Properties of the counters of a finished job                            *)
(***************************************************************************)
\* C30: when the job is done with every bucket empty, every recipient has
\* been counted once, as sent or as failed: sent + failed = total
C30_DoneCountsEveryRecipient ==
    (sched_status = "done" /\ \A d \in RecvDomains : provider_buckets[d] = <<>>)
        => sent + failed = total

(***************************************************************************)
(* Properties of the global locks                                          *)
(***************************************************************************)
\* thread t holds lock h and waits for lock w
holds_and_waits(t, h, w) ==
    /\ lk_held[h] = t
    /\ next_op(t) = <<"acquire", w>>

\* C31: no state has one thread holding JOBS_LOCK and waiting for DB_LOCK
\* while another holds DB_LOCK and waits for JOBS_LOCK
C31_NoLockOrderDeadlock ==
    ~ \E t1 \in LockThreads, t2 \in LockThreads :
          /\ holds_and_waits(t1, "JOBS_LOCK", "DB_LOCK")
          /\ holds_and_waits(t2, "DB_LOCK", "JOBS_LOCK")

(***************************************************************************)
(* Properties of the snapshot row of a deleted job                         *)
(***************************************************************************)
\* C32: once the delete has returned, the job has no row in table jobs
C32_NoRowAfterDelete == dl_pc = "returned" => ~dl_row

\* C32 for the callers that persist under JOBS_LOCK: a write of the sender
\* thread or of the reconciler never puts a row back after the delete has
\* returned
C32_LockedWritersNeverRecreate ==
    [][(dl_pc = "returned" /\ ~dl_row /\ dl_row') =>
          \E p \in Persisters : ~persists_under_lock(p) /\ dl_ps[p] = "insert"]_vars

C33_KnownNamedJobIsSelected ==
    \A e \in Events :
        (e.job_id # NoJob /\ e.job_id \in JOBS) => resolve_job(e) = {e.job_id}

(***************************************************************************)
(* Properties of the counters of a rehydrated job                          *)
(***************************************************************************)
\* C34: when the process comes back, every per-status outcome counter of
\* every job it loads equals the number of rows job_outcomes holds for the
\* job in that status
C34_RehydratedCountersEqualRows ==
    [][Restart =>
          \A j \in JOBS' : \A k \in Kinds :
              outcome_counts'[j][k]
                 = Cardinality(RowsInStatus(job_outcomes', j, k))]_vars

(***************************************************************************)
(* Properties of the snapshot at the end of a job                          *)
(***************************************************************************)
\* a step of the running process gives a job that is not deleted a terminal
\* status
becomes_terminal ==
    /\ ctl_status \notin TerminalStatuses
    /\ ctl_status' \in TerminalStatuses
    /\ ~deleted'
    /\ restart_tick' = restart_tick

C35_TerminalAfterGuardrailsIsPersisted ==
    [][(becomes_terminal /\ t_pc # "spawned") =>
          (ctl_row'.present /\ ctl_row'.status = ctl_status')]_vars

(***************************************************************************)
(* Properties of the throttle of maybe_persist                             *)
(***************************************************************************)
\* a step is a state event of the job
state_event == ps_counter' # ps_counter

\* C36: a state event reaches the write of the snapshot when a second has
\* gone by since the last snapshot was written, or when it is the 15th
\* event since the last snapshot was written, or when it is forced, also
\* when the write before it failed
C36_WriteWhenDue ==
    [][(/\ state_event
        /\ \/ ps_force'
           \/ ps_now - ps_written_at >= PersistThrottle
           \/ ps_since + 1 >= PersistEvery)
          => ps_result' \in {"written", "failed"}]_vars

\* C36 with the write attempts in the place of the writes: a state event
\* reaches the write when it is forced, when a second has gone by since the
\* last attempt, and whenever the counter of the job reaches a multiple of 15
C36_AttemptWhenDue ==
    [][(/\ state_event
        /\ \/ ps_force'
           \/ ps_now - persist_ts >= PersistThrottle
           \/ ps_counter' = 0)
          => ps_result' \in {"written", "failed"}]_vars

(***************************************************************************)
(* Properties of the order of dispatch                                     *)
(***************************************************************************)
\* the place of a recipient in the list of the form
pool_index(r) == CHOOSE i \in 1..Len(RcptPool) : RcptPool[i] = r

\* C37: when a chunk goes to the sender pool its recipients are in the order
\* of the list, and each of them precedes in the list every recipient still
\* in the bucket of the domain, from which every later chunk of the domain
\* is taken, also after the chunk was put back at the head of the bucket
C37_InsertionOrderAcrossChunks ==
    [][chunk_dispatched =>
          LET d == cur.target_domain
              rest == provider_buckets'[d]
          IN  /\ \A i \in 1..Len(cur.chunk) : \A k \in 1..Len(rest) :
                    pool_index(cur.chunk[i]) < pool_index(rest[k])
              /\ \A i \in 1..Len(cur.chunk) : \A k \in 1..Len(cur.chunk) :
                    i < k => pool_index(cur.chunk[i]) < pool_index(cur.chunk[k])]_vars

\* the first chunk of d1 is about to be sent after both senders were
\* blocked for d1 and the chunk went back to its bucket; a second recipient
\* of d1 waits in the bucket
C37_Witness ==
    /\ sched_pc = "send"
    /\ cur.chunk = <<"a@d1">>
    /\ provider_buckets["d1"] = <<"b@d1">>
    /\ relation_backoff_attempts[<<"d1", "x">>] > 0
    /\ relation_backoff_attempts[<<"d1", "y">>] > 0

\* C38: when a chunk is dispatched for a domain that had a chunk before,
\* every other domain has, since that chunk, either had a chunk dispatched
\* or been without recipients or waiting for its retry time
C38_RoundRobinBetweenChunks ==
    [][(chunk_dispatched /\ rr_had[cur.target_domain]) =>
          \A e \in RecvDomains \ {cur.target_domain} :
              e \in rr_seen[cur.target_domain]]_vars

\* the second chunk of d1 is about to be dispatched after a chunk of d2
\* went out in between, and d2 has not been passed over since the first
C38_Witness ==
    /\ sched_pc = "send"
    /\ cur.target_domain = "d1"
    /\ rr_had["d1"]
    /\ rr_had["d2"]
    /\ provider_order = <<"d1", "d2">>
    /\ n_blocks = 0

(***************************************************************************)
(* Properties of the histories of a job                                    *)
(***************************************************************************)
\* C39: the list of recent results and the list of chunk states of a job
\* never hold more than 600 entries, however many recipients and chunks the
\* job has handled
C39_RingsAreBounded ==
    /\ recent_results_len <= ChunkStatesLimit
    /\ chunk_states_len <= ChunkStatesLimit

\* C39 for the list of chunk states, and for the recent results that go
\* into the snapshot of the job
C39_ChunkStatesAndSnapshotBounded ==
    /\ chunk_states_len <= ChunkStatesLimit
    /\ snapshot_results(recent_results_len) <= SnapshotResults

(***************************************************************************)
(* Properties of pause and resume against the checkpoints                  *)
(***************************************************************************)
\* C40: the status of the job is paused only while job.paused is set, under
\* every interleaving of pause and resume with the checkpoints of the
\* scheduler and of the workers
C40_PausedOnlyWhileFlagSet ==
    ctl_status = "paused" => paused

====
